---- MODULE Spec2Model ----
(***************************************************************************)
(* State-machine model of the field-level date validation helpers          *)
(* (DateValidator) and of the parts of the string helpers (StringValidator)*)
(* that share its option conventions.  A record is borrowed for one call   *)
(* at a time; every public entry point is one atomic action on it.  The     *)
(* auto-transform job of the listener is modelled step by step, one action *)
(* per stretch of its handler between two awaits.                          *)
(*                                                                         *)
(* Texts (JavaScript strings) are sequences of one-character strings, so   *)
(* that rendering and parsing are computed character by character.         *)
(***************************************************************************)
EXTENDS Integers, Sequences, FiniteSets, TLC

VARIABLES rec, clock, calls, last, job

vars == <<rec, clock, calls, last, job>>

(***************************************************************************)
(* Bounds of the model.                                                    *)
(***************************************************************************)
\* number of public entry point calls made on the record in one behaviour
MaxCalls == 2
\* the wall clock advances by at most this many ticks during a behaviour
MaxTick == 1
\* number of entries of params.transformFunctions
MaxTransforms == 2

(***************************************************************************)
(* Characters and texts.                                                   *)
(***************************************************************************)
Uppers == <<"A","B","C","D","E","F","G","H","I","J","K","L","M",
            "N","O","P","Q","R","S","T","U","V","W","X","Y","Z">>

Lowers == <<"a","b","c","d","e","f","g","h","i","j","k","l","m",
            "n","o","p","q","r","s","t","u","v","w","x","y","z">>

Digits == <<"0","1","2","3","4","5","6","7","8","9">>

\* null / undefined passed where a string is expected
Undef == <<"undefined">>

IsUndef(t) == t = Undef

DigitSet == { Digits[i] : i \in 1..10 }

DigitTable == [c \in DigitSet |-> (CHOOSE i \in 1..10 : Digits[i] = c) - 1]

IsDigit(c) == c \in DigitSet

DigitVal(c) == DigitTable[c]

UpperSet == { Uppers[i] : i \in 1..26 }

LowerTable == [c \in UpperSet |-> Lowers[CHOOSE i \in 1..26 : Uppers[i] = c]]

LowerChar(c) == IF c \in UpperSet THEN LowerTable[c] ELSE c

\* String.prototype.toLowerCase
ToLowerCase(s) == [i \in 1..Len(s) |-> LowerChar(s[i])]

\* String.prototype.includes
Includes(s, sub) ==
    \E i \in 1..(Len(s) - Len(sub) + 1) : SubSeq(s, i, i + Len(sub) - 1) = sub

AllDigits(s) == Len(s) > 0 /\ \A i \in 1..Len(s) : IsDigit(s[i])

RECURSIVE ParseInt(_)
\* parseInt of a text of decimal digits
ParseInt(s) ==
    IF Len(s) = 0 THEN 0
    ELSE 10 * ParseInt(SubSeq(s, 1, Len(s) - 1)) + DigitVal(s[Len(s)])

RECURSIVE NumToString(_)
\* Number.prototype.toString of a non-negative integer
NumToString(n) ==
    IF n < 10 THEN <<Digits[n + 1]>>
    ELSE NumToString(n \div 10) \o <<Digits[(n % 10) + 1]>>

\* String.prototype.padStart(2, '0')
PadStart2(s) == IF Len(s) >= 2 THEN s ELSE IF Len(s) = 1 THEN <<"0">> \o s ELSE <<"0","0">>

\* String.prototype.slice(-2)
SliceLast2(s) == IF Len(s) <= 2 THEN s ELSE SubSeq(s, Len(s) - 1, Len(s))

IsSplitChar(c) == c \in {"-", "/", ".", " "}

RECURSIVE SplitFrom(_, _, _)
SplitFrom(s, i, cur) ==
    IF i > Len(s) THEN <<cur>>
    ELSE IF IsSplitChar(s[i]) THEN <<cur>> \o SplitFrom(s, i + 1, <<>>)
    ELSE SplitFrom(s, i + 1, Append(cur, s[i]))

\* format.split(/[-\/.\s]/)
SplitFormat(s) == SplitFrom(s, 1, <<>>)

RECURSIVE JoinFrom(_, _, _)
JoinFrom(parts, i, delim) ==
    IF i > Len(parts) THEN <<>>
    ELSE IF i = Len(parts) THEN parts[i]
    ELSE parts[i] \o delim \o JoinFrom(parts, i + 1, delim)

\* Array.prototype.join
Join(parts, delim) == JoinFrom(parts, 1, delim)

(***************************************************************************)
(* Date Values: a civil date and a tick within the day.  getTime() is the  *)
(* order-preserving ordinal dayNumber * TicksPerDay + tod.                 *)
(***************************************************************************)
NoDate == [some |-> FALSE]

\* ticks in a day: the clock readings 0..MaxTick lie before noon
NoonTick == MaxTick + 1

TicksPerDay == 2 * NoonTick

\* days from 1970-01-01 of the proleptic Gregorian date y-m-d
DaysFromCivil(y, m, d) ==
    LET yy  == IF m <= 2 THEN y - 1 ELSE y
        era == yy \div 400
        yoe == yy - era * 400
        mp  == IF m > 2 THEN m - 3 ELSE m + 9
        doy == (153 * mp + 2) \div 5 + d - 1
        doe == yoe * 365 + yoe \div 4 - yoe \div 100 + doy
    IN  era * 146097 + doe - 719468

CivilFromDays(z0) ==
    LET z   == z0 + 719468
        era == z \div 146097
        doe == z - era * 146097
        yoe == (doe - doe \div 1460 + doe \div 36524 - doe \div 146096) \div 365
        doy == doe - (365 * yoe + yoe \div 4 - yoe \div 100)
        mp  == (5 * doy + 2) \div 153
        d   == doy - (153 * mp + 2) \div 5 + 1
        m   == IF mp < 10 THEN mp + 3 ELSE mp - 9
        y   == yoe + era * 400 + (IF m <= 2 THEN 1 ELSE 0)
    IN  [y |-> y, m |-> m, d |-> d]

\* new Date(year, monthIndex, day) with JavaScript's overflow normalisation;
\* month is 1-based here and may lie outside 1..12, day outside the month
MakeDate(y, m, d, tod) ==
    LET m0 == m - 1
        yn == y + (m0 \div 12)
        mn == (m0 % 12) + 1
        c  == CivilFromDays(DaysFromCivil(yn, mn, 1) + d - 1)
    IN  [some |-> TRUE, y |-> c.y, m |-> c.m, d |-> c.d, tod |-> tod]

\* the one element of a singleton set; used to name a computed value once
The(S) == CHOOSE x \in S : TRUE

GetFullYear(date) == date.y

\* Date.prototype.getMonth() + 1
GetMonth1(date) == date.m

GetDate(date) == date.d

GetTime(date) == DaysFromCivil(date.y, date.m, date.d) * TicksPerDay + date.tod

\* the instant read from the wall clock after k ticks (new Date())
Now(k) == [some |-> TRUE, y |-> 2024, m |-> 3, d |-> 15, tod |-> k]

(***************************************************************************)
(* formatDate: the format-string interpreter.                              *)
(***************************************************************************)
\* date.toLocaleString('en-US', { month: 'long' })
MonthLong ==
   <<<<"J","a","n","u","a","r","y">>,
      <<"F","e","b","r","u","a","r","y">>,
      <<"M","a","r","c","h">>,
      <<"A","p","r","i","l">>,
      <<"M","a","y">>,
      <<"J","u","n","e">>,
      <<"J","u","l","y">>,
      <<"A","u","g","u","s","t">>,
      <<"S","e","p","t","e","m","b","e","r">>,
      <<"O","c","t","o","b","e","r">>,
      <<"N","o","v","e","m","b","e","r">>,
      <<"D","e","c","e","m","b","e","r">>>>

\* date.toLocaleString('en-US', { month: 'short' })
MonthShort == [m \in 1..12 |-> SubSeq(MonthLong[m], 1, 3)]

\* date.toLocaleDateString('en-US', {year:'numeric', month:'2-digit', day:'2-digit'})
LocaleDefault(date) ==
    PadStart2(NumToString(GetMonth1(date))) \o <<"/">>
        \o PadStart2(NumToString(GetDate(date))) \o <<"/">>
        \o NumToString(GetFullYear(date))

HasMonthName(format) ==
    Includes(format, <<"m","m","m","m">>) \/ Includes(format, <<"m","m","m">>)

\* a faulty detection: the literal delimiter is taken also next to a month name
DelimiterDespiteMonthName(format) ==
    IF Includes(format, <<"/">>) THEN <<"/">>
    ELSE IF Includes(format, <<"-">>) THEN <<"-">>
    ELSE IF Includes(format, <<".">>) THEN <<".">>
    ELSE <<" ">>

FormatDelimiter(format) ==
    IF ~HasMonthName(format)
    THEN IF Includes(format, <<"/">>) THEN <<"/">>
         ELSE IF Includes(format, <<"-">>) THEN <<"-">>
         ELSE IF Includes(format, <<".">>) THEN <<".">>
         ELSE <<" ">>
    ELSE <<" ">>

FormatMonth(date, format) ==
    IF Includes(format, <<"m","m","m","m">>) THEN MonthLong[GetMonth1(date)]
    ELSE IF Includes(format, <<"m","m","m">>) THEN MonthShort[GetMonth1(date)]
    ELSE IF Includes(format, <<"m","m">>) THEN PadStart2(NumToString(GetMonth1(date)))
    ELSE NumToString(GetMonth1(date))

FormatYear(date, format) ==
    IF Includes(format, <<"y","y","y","y">>) THEN NumToString(GetFullYear(date))
    ELSE IF Includes(format, <<"y","y">>) THEN SliceLast2(NumToString(GetFullYear(date)))
    ELSE NumToString(GetFullYear(date))

FormatDay(date, format) ==
    IF Includes(format, <<"d","d">>) THEN PadStart2(NumToString(GetDate(date)))
    ELSE NumToString(GetDate(date))

\* which component a fragment of the format selects: year, month, day or none
ClassifyPart(part) ==
    IF Includes(part, <<"y">>) THEN "y"
    ELSE IF Includes(part, <<"m">>) THEN "m"
    ELSE IF Includes(part, <<"d">>) THEN "d"
    ELSE "-"

RECURSIVE ComponentsFrom(_, _, _, _, _)
ComponentsFrom(parts, i, year, month, day) ==
    IF i > Len(parts) THEN <<>>
    ELSE LET k == ClassifyPart(parts[i])
             rest == ComponentsFrom(parts, i + 1, year, month, day)
         IN  IF k = "y" THEN <<year>> \o rest
             ELSE IF k = "m" THEN <<month>> \o rest
             ELSE IF k = "d" THEN <<day>> \o rest
             ELSE rest

FormatComponents(format, year, month, day) ==
    ComponentsFrom(SplitFormat(format), 1, year, month, day)

\* the ISO fallback taken when the format does not give three components
IsoFallback(date, year, day) ==
    year \o <<"-">> \o PadStart2(NumToString(GetMonth1(date))) \o <<"-">> \o PadStart2(day)

formatDate(date, dateFormat) ==
    IF IsUndef(dateFormat) \/ dateFormat = <<>> THEN LocaleDefault(date)
    ELSE LET format == ToLowerCase(dateFormat)
             delimiter == FormatDelimiter(format)
             month == FormatMonth(date, format)
             year == FormatYear(date, format)
             day == FormatDay(date, format)
             components == FormatComponents(format, year, month, day)
         IN  IF Len(components) # 3 THEN IsoFallback(date, year, day)
             ELSE Join(components, delimiter)

(***************************************************************************)
(* The Relative-Date Evaluator.                                            *)
(***************************************************************************)
NowWord == <<"n","o","w">>

RelUnits == { <<"d","a","y">>, <<"d","a","y","s">>,
              <<"m","o","n","t","h">>, <<"m","o","n","t","h","s">>,
              <<"y","e","a","r">>, <<"y","e","a","r","s">> }

NoMatch == [ok |-> FALSE]

\* end of the digit run of s that starts at position i (i - 1 when there is none)
RECURSIVE DigitRunEnd(_, _)
DigitRunEnd(s, i) ==
    IF i <= Len(s) /\ IsDigit(s[i]) THEN DigitRunEnd(s, i + 1) ELSE i - 1

\* s.match(/^now([+-])(\d+)(days?|months?|years?)$/)
RelativeMatch(s) ==
    IF Len(s) >= 5 /\ SubSeq(s, 1, 3) = NowWord /\ s[4] \in {"+", "-"}
    THEN LET e == DigitRunEnd(s, 5)
         IN  IF e >= 5 /\ SubSeq(s, e + 1, Len(s)) \in RelUnits
             THEN [ok |-> TRUE, operation |-> s[4], amount |-> SubSeq(s, 5, e),
                   unit |-> SubSeq(s, e + 1, Len(s))]
             ELSE NoMatch
    ELSE NoMatch

\* a faulty unit reading: the plural is kept
KeepPlural(u) == u

\* unit.replace(/s$/, '')
StripPlural(u) == IF Len(u) > 0 /\ u[Len(u)] = "s" THEN SubSeq(u, 1, Len(u) - 1) ELSE u

\* parseDateArgument, the clock reading `now` made explicit; NoDate is `false`
parseDateArgument(arg, now) ==
    IF IsUndef(arg) \/ arg = <<>> THEN NoDate
    ELSE LET lower == ToLowerCase(arg)
             match == RelativeMatch(lower)
         IN  IF lower = NowWord THEN now
             ELSE IF ~match.ok THEN NoDate
             ELSE LET value == ParseInt(match.amount)
                      delta == IF match.operation = "+" THEN value ELSE -value
                      c     == now
                      unit  == StripPlural(match.unit)
                  IN  IF unit = <<"d","a","y">> THEN MakeDate(c.y, c.m, c.d + delta, now.tod)
                      ELSE IF unit = <<"m","o","n","t","h">> THEN MakeDate(c.y, c.m + delta, c.d, now.tod)
                      ELSE IF unit = <<"y","e","a","r">> THEN MakeDate(c.y + delta, c.m, c.d, now.tod)
                      ELSE NoDate

(***************************************************************************)
(* The Natural-Date Parser: chrono.parseDate of the chrono-node library,   *)
(* for the shapes of text the validators meet: the casual word "now", ISO  *)
(* dates, numeric month/day/year dates and month-name dates.  A date-only  *)
(* text is placed at noon of its day.  NoDate is `null`.                   *)
(***************************************************************************)
RECURSIVE SplitOnFrom(_, _, _, _)
SplitOnFrom(s, seps, i, cur) ==
    IF i > Len(s) THEN <<cur>>
    ELSE IF s[i] \in seps THEN <<cur>> \o SplitOnFrom(s, seps, i + 1, <<>>)
    ELSE SplitOnFrom(s, seps, i + 1, Append(cur, s[i]))

SplitOn(s, seps) == SplitOnFrom(s, seps, 1, <<>>)

IsLeapYear(y) == (y % 4 = 0 /\ y % 100 # 0) \/ y % 400 = 0

DaysInMonth(y, m) ==
    IF m = 2 THEN (IF IsLeapYear(y) THEN 29 ELSE 28)
    ELSE IF m \in {4, 6, 9, 11} THEN 30 ELSE 31

ValidDay(y, m, d) == m \in 1..12 /\ d >= 1 /\ d <= DaysInMonth(y, m)

\* chrono places a date given without a time at noon
Noon(y, m, d) ==
    IF ValidDay(y, m, d)
    THEN [some |-> TRUE, y |-> y, m |-> m, d |-> d, tod |-> NoonTick]
    ELSE NoDate

\* yyyy-m-d
ChronoIso(text) ==
    LET p == SplitOn(text, {"-"})
    IN  IF Len(p) = 3 /\ AllDigits(p[1]) /\ Len(p[1]) = 4
           /\ AllDigits(p[2]) /\ Len(p[2]) <= 2 /\ AllDigits(p[3]) /\ Len(p[3]) <= 2
        THEN Noon(ParseInt(p[1]), ParseInt(p[2]), ParseInt(p[3]))
        ELSE NoDate

\* a two-digit year is taken in 1951..2050
ChronoYear(p) == IF Len(p) = 4 THEN ParseInt(p)
                 ELSE IF ParseInt(p) > 50 THEN 1900 + ParseInt(p) ELSE 2000 + ParseInt(p)

\* m/d/y with separators / . -, read month first; a first number above 12 is a day
ChronoSlash(text) ==
    LET p == SplitOn(text, {"/", ".", "-"})
    IN  IF Len(p) = 3 /\ AllDigits(p[1]) /\ Len(p[1]) <= 2
           /\ AllDigits(p[2]) /\ Len(p[2]) <= 2
           /\ AllDigits(p[3]) /\ Len(p[3]) \in {2, 4}
        THEN LET a == ParseInt(p[1])
                 b == ParseInt(p[2])
                 y == ChronoYear(p[3])
             IN  IF a \in 1..12 THEN Noon(y, a, b)
                 ELSE IF a > 12 /\ a <= 31 /\ b \in 1..12 THEN Noon(y, b, a)
                 ELSE NoDate
        ELSE NoDate

MonthWords == [m \in 1..12 |-> {ToLowerCase(MonthLong[m]), ToLowerCase(MonthShort[m])}]

MonthOfName(w) ==
    IF \E m \in 1..12 : w \in MonthWords[m]
    THEN CHOOSE m \in 1..12 : w \in MonthWords[m]
    ELSE 0

\* "March 15 2024", "Mar 15 2024"
ChronoMonthName(text) ==
    LET p == SplitOn(ToLowerCase(text), {" "})
    IN  IF Len(p) = 3 /\ MonthOfName(p[1]) # 0
           /\ AllDigits(p[2]) /\ Len(p[2]) <= 2 /\ AllDigits(p[3]) /\ Len(p[3]) = 4
        THEN Noon(ParseInt(p[3]), MonthOfName(p[1]), ParseInt(p[2]))
        ELSE NoDate

\* the first of the shapes that reads
FirstSome(a, b, c) == IF a.some THEN a ELSE IF b.some THEN b ELSE c

ChronoParseDate(text, now) ==
    IF IsUndef(text) THEN NoDate
    ELSE IF ToLowerCase(text) = NowWord THEN now
    ELSE The({ FirstSome(iso, slash, name) :
               iso \in {ChronoIso(text)}, slash \in {ChronoSlash(text)},
               name \in {ChronoMonthName(text)} })

\* a faulty isDate: it also turns away the bare word now
IsDateExceptNow(value, now) ==
    IF value = Undef THEN FALSE
    ELSE IF RelativeMatch(ToLowerCase(value)).ok \/ ToLowerCase(value) = NowWord THEN FALSE
    ELSE ChronoParseDate(value, now).some

\* isDate: not the signed relative form, and chrono reads a date
isDate(value, now) ==
    IF IsUndef(value) THEN FALSE
    ELSE IF RelativeMatch(ToLowerCase(value)).ok THEN FALSE
    ELSE ChronoParseDate(value, now).some

parseDate(value, now) == ChronoParseDate(value, now)

(***************************************************************************)
(* The record and its capabilities.  A record with full capability offers  *)
(* get/set/addError/addInfo; a record with reduced capability is a plain   *)
(* object of which only values[field].value can be read: a call of one of  *)
(* its missing methods throws a TypeError.                                 *)
(***************************************************************************)
Modes == {"full", "reduced"}

OptVals == {"unset", "false", "true"}

\* a faulty reading of an option: on unless explicitly false
OptionDefaultsOn(o) == o # "false"

\* options?.x in a condition
Truthy(o) == o = "true"

\* options?.x !== false
NotFalse(o) == o # "false"

NoOptions == [addError |-> "unset", validateOnEmpty |-> "unset", setRecord |-> "unset",
              addInfo |-> "unset", formatOnError |-> "unset", formatOnEmpty |-> "unset"]

\* a JavaScript string in a condition
TruthyText(v) == ~IsUndef(v) /\ v # <<>>

\* the effects of one call in progress: the field, the annotations, the
\* invocations made of set/addError/addInfo, and whether an error escaped
Begin(r) == [mode |-> r.mode, value |-> r.value, errors |-> r.errors, infos |-> r.infos,
             sets |-> <<>>, errCalls |-> 0, infoCalls |-> 0, threw |-> FALSE]

\* try { record.get(field) } catch { record.values[field].value }
ReadField(c) == [value |-> c.value, isRecordWithoutLinks |-> c.mode # "full"]

RecordSet(c, text) ==
    IF c.threw THEN c
    ELSE IF c.mode = "full"
    THEN [c EXCEPT !.value = text, !.sets = Append(@, text)]
    ELSE [c EXCEPT !.sets = Append(@, text), !.threw = TRUE]

RecordAddError(c) ==
    IF c.threw THEN c
    ELSE IF c.mode = "full"
    THEN [c EXCEPT !.errors = @ + 1, !.errCalls = @ + 1]
    ELSE [c EXCEPT !.errCalls = @ + 1, !.threw = TRUE]

RecordAddInfo(c) ==
    IF c.threw THEN c
    ELSE IF c.mode = "full"
    THEN [c EXCEPT !.infos = @ + 1, !.infoCalls = @ + 1]
    ELSE [c EXCEPT !.infoCalls = @ + 1, !.threw = TRUE]

(***************************************************************************)
(* DateValidator.validate and DateValidator.format.                        *)
(***************************************************************************)
DefaultFormat == <<"y","y","y","y","-","M","M","-","d","d">>

\* dateFormat || 'yyyy-MM-dd'
OrDefaultFormat(dateFormat) == IF TruthyText(dateFormat) THEN dateFormat ELSE DefaultFormat

\* the natural date of the value rendered, or "" when chrono reads none
RenderNatural(value, dateFormat, now) ==
    The({ IF parsedDate.some
          THEN formatDate(parsedDate, OrDefaultFormat(dateFormat))
          ELSE <<>> :
          parsedDate \in {parseDate(value, now)} })

\* validate's resolution of the field value: relative expression first, then natural date
ValidateResolve(value, dateFormat, now) ==
    IF ~TruthyText(value) THEN [valid |-> FALSE, formatted |-> <<>>]
    ELSE The({ IF isParseArgument.some
               THEN [valid |-> TRUE,
                     formatted |-> formatDate(isParseArgument, OrDefaultFormat(dateFormat))]
               ELSE IF isDate(value, now)
               THEN [valid |-> TRUE, formatted |-> RenderNatural(value, dateFormat, now)]
               ELSE [valid |-> FALSE, formatted |-> <<>>] :
               isParseArgument \in {parseDateArgument(value, now)} })

\* format's rendering of the field value, resolved like validate
FormatResolve(value, dateFormat, now) ==
    IF ~TruthyText(value) THEN <<>>
    ELSE The({ IF isParseArgument.some
               THEN formatDate(isParseArgument, OrDefaultFormat(dateFormat))
               ELSE RenderNatural(value, dateFormat, now) :
               isParseArgument \in {parseDateArgument(value, now)} })

\* validate writes whatever it rendered
ValidateSetGuard(formatted, links) == formatted # <<>>

\* a faulty error guard: it forgets that an empty value is only judged on request
ErrorGuardIgnoringEmpty(value, valid, options, links) ==
    ~valid /\ options.addError = "true" /\ links

\* a faulty error guard: it forgets the capability of the record
ErrorGuardNoLinks(value, valid, options, links) ==
    /\ ((value # <<>> /\ value # Undef) \/ options.validateOnEmpty = "true")
    /\ ~valid
    /\ options.addError = "true"

\* the condition under which a validator attaches its error annotation
ErrorGuard(value, valid, options, links) ==
    /\ (TruthyText(value) \/ Truthy(options.validateOnEmpty))
    /\ ~valid
    /\ Truthy(options.addError)
    /\ links

\* what a call hands back: its effects, the verdict or the rendered text, and
\* the dates it resolved
Outcome(c, valid, formatted, inputDate, bound1, bound2) ==
    [ctx |-> c, valid |-> valid, formatted |-> formatted,
     inputDate |-> inputDate, bound1 |-> bound1, bound2 |-> bound2]

ValidateEffects(r, res, options) ==
    LET c0 == Begin(r)
        rd == ReadField(c0)
        links == ~rd.isRecordWithoutLinks
        c1 == IF ValidateSetGuard(res.formatted, links) THEN RecordSet(c0, res.formatted) ELSE c0
        c2 == IF ErrorGuard(rd.value, res.valid, options, links) THEN RecordAddError(c1) ELSE c1
    IN  Outcome(c2, res.valid, res.formatted, NoDate, NoDate, NoDate)

validate(r, dateFormat, options, t) ==
    The({ ValidateEffects(r, res, options) :
          res \in {ValidateResolve(ReadField(r).value, dateFormat, Now(t))} })

FormatInfoGuard(value, formatted, options, links) ==
    /\ (TruthyText(value) \/ Truthy(options.formatOnEmpty))
    /\ formatted # <<>>
    /\ Truthy(options.addInfo)
    /\ Truthy(options.setRecord)
    /\ links

\* a faulty guard: the field is written whenever setRecord asks for it
SetWheneverAsked(formatted, options, links) == Truthy(options.setRecord) /\ links

FormatSetGuard(formatted, options, links) ==
    /\ Truthy(options.setRecord)
    /\ formatted # <<>>
    /\ links

FormatEffects(r, formatted, options) ==
    LET c0 == Begin(r)
        rd == ReadField(c0)
        links == ~rd.isRecordWithoutLinks
        c1 == IF FormatInfoGuard(rd.value, formatted, options, links) THEN RecordAddInfo(c0) ELSE c0
        c2 == IF FormatSetGuard(formatted, options, links) THEN RecordSet(c1, formatted) ELSE c1
    IN  Outcome(c2, FALSE, formatted, NoDate, NoDate, NoDate)

format(r, dateFormat, options, t) ==
    The({ FormatEffects(r, formatted, options) :
          formatted \in {FormatResolve(ReadField(r).value, dateFormat, Now(t))} })

(***************************************************************************)
(* The comparison validators before, after and between.                    *)
(***************************************************************************)
\* a comparison bound: natural date first (isDate), then relative expression
ResolveBound(bound, now) ==
    IF isDate(bound, now) THEN parseDate(bound, now)
    ELSE parseDateArgument(bound, now)

\* a faulty resolution: every resolved value counts as relative
ResolveInputAllRelative(value, now) ==
    The({ [date |-> date, relative |-> date.some] :
          date \in {IF isDate(value, now) THEN parseDate(value, now)
                    ELSE parseDateArgument(value, now)} })

\* the field value in a comparison validator, resolved like a bound; `relative`
\* tells that the Relative-Date Evaluator produced it
ResolveInput(value, now) ==
    IF isDate(value, now) THEN [date |-> parseDate(value, now), relative |-> FALSE]
    ELSE The({ [date |-> parsedDate, relative |-> parsedDate.some] :
               parsedDate \in {parseDateArgument(value, now)} })

\* nothing is resolved when the field value is empty
BoundIfValue(value, bound, now) == IF TruthyText(value) THEN ResolveBound(bound, now) ELSE NoDate

InputIfValue(value, now) ==
    IF TruthyText(value) THEN ResolveInput(value, now) ELSE [date |-> NoDate, relative |-> FALSE]

\* a faulty guard: the relative value is never written back
NeverRewrite(dateFormat, links) == FALSE

BeforeRewriteGuard(dateFormat, links) == TruthyText(dateFormat) /\ links

AfterRewriteGuard(dateFormat, links) == TruthyText(dateFormat)

BetweenRewriteGuard(dateFormat, links) == TruthyText(dateFormat) /\ links

BeforeCompare(inputDate, bound) == GetTime(inputDate) < GetTime(bound)

AfterCompare(inputDate, bound) == GetTime(inputDate) > GetTime(bound)

\* a faulty comparison: the closed interval
BetweenClosed(inputDate, start, end) ==
    GetTime(inputDate) >= GetTime(start) /\ GetTime(inputDate) <= GetTime(end)

BetweenCompare(inputDate, start, end) ==
    GetTime(inputDate) > GetTime(start) /\ GetTime(inputDate) < GetTime(end)

BeforeEffects(r, dateBeforeFormatted, input, dateFormat, options) ==
    LET c0 == Begin(r)
        rd == ReadField(c0)
        links == ~rd.isRecordWithoutLinks
        c1 == IF input.relative /\ BeforeRewriteGuard(dateFormat, links)
              THEN RecordSet(c0, formatDate(input.date, dateFormat)) ELSE c0
        valid == /\ input.date.some
                 /\ dateBeforeFormatted.some
                 /\ BeforeCompare(input.date, dateBeforeFormatted)
        c2 == IF ErrorGuard(rd.value, valid, options, links) THEN RecordAddError(c1) ELSE c1
    IN  Outcome(c2, valid, <<>>, input.date, dateBeforeFormatted, NoDate)

before(r, dateBefore, dateFormat, options, tb, tv) ==
    The({ BeforeEffects(r, dateBeforeFormatted, input, dateFormat, options) :
          dateBeforeFormatted \in {BoundIfValue(ReadField(r).value, dateBefore, Now(tb))},
          input \in {InputIfValue(ReadField(r).value, Now(tv))} })

AfterEffects(r, dateAfterFormatted, input, dateFormat, options) ==
    LET c0 == Begin(r)
        rd == ReadField(c0)
        links == ~rd.isRecordWithoutLinks
        c1 == IF input.relative /\ AfterRewriteGuard(dateFormat, links)
              THEN RecordSet(c0, formatDate(input.date, dateFormat)) ELSE c0
        valid == /\ input.date.some
                 /\ dateAfterFormatted.some
                 /\ AfterCompare(input.date, dateAfterFormatted)
        c2 == IF ErrorGuard(rd.value, valid, options, links) THEN RecordAddError(c1) ELSE c1
    IN  Outcome(c2, valid, <<>>, input.date, dateAfterFormatted, NoDate)

after(r, dateAfter, dateFormat, options, tb, tv) ==
    The({ AfterEffects(r, dateAfterFormatted, input, dateFormat, options) :
          dateAfterFormatted \in {BoundIfValue(ReadField(r).value, dateAfter, Now(tb))},
          input \in {InputIfValue(ReadField(r).value, Now(tv))} })

BetweenEffects(r, dateStartFormatted, dateEndFormatted, input, dateFormat, options) ==
    LET c0 == Begin(r)
        rd == ReadField(c0)
        links == ~rd.isRecordWithoutLinks
        c1 == IF input.relative /\ BetweenRewriteGuard(dateFormat, links)
              THEN RecordSet(c0, formatDate(input.date, dateFormat)) ELSE c0
        valid == /\ input.date.some
                 /\ dateStartFormatted.some
                 /\ dateEndFormatted.some
                 /\ BetweenCompare(input.date, dateStartFormatted, dateEndFormatted)
        c2 == IF ErrorGuard(rd.value, valid, options, links) THEN RecordAddError(c1) ELSE c1
    IN  Outcome(c2, valid, <<>>, input.date, dateStartFormatted, dateEndFormatted)

between(r, dateStart, dateEnd, dateFormat, options, tb, tv) ==
    The({ BetweenEffects(r, dateStartFormatted, dateEndFormatted, input, dateFormat, options) :
          dateStartFormatted \in {BoundIfValue(ReadField(r).value, dateStart, Now(tb))},
          dateEndFormatted \in {BoundIfValue(ReadField(r).value, dateEnd, Now(tb))},
          input \in {InputIfValue(ReadField(r).value, Now(tv))} })

(***************************************************************************)
(* The dispatch facade evaluateAndFormat.  validationArgs is absent, a     *)
(* string, or an array of strings.                                         *)
(***************************************************************************)
NoArgs == [kind |-> "absent"]

ScalarArg(text) == [kind |-> "scalar", text |-> text]

ArrayArgs(items) == [kind |-> "array", items |-> items]

\* validationArgs[0]; reading an index of undefined throws a TypeError
FirstArg(args) ==
    IF args.kind = "absent" THEN [threw |-> TRUE, text |-> Undef]
    ELSE IF args.kind = "scalar"
    THEN [threw |-> FALSE, text |-> IF Len(args.text) > 0 THEN <<args.text[1]>> ELSE Undef]
    ELSE [threw |-> FALSE, text |-> IF Len(args.items) > 0 THEN args.items[1] ELSE Undef]

\* a faulty reading of the bounds: the first two elements of any longer array
BetweenArgsFirstTwo(args) ==
    IF args.kind = "array" /\ Len(args.items) >= 2
    THEN [arg1 |-> args.items[1], arg2 |-> args.items[2]]
    ELSE [arg1 |-> Undef, arg2 |-> Undef]

\* the two bounds of between: taken only from an array of exactly two elements
BetweenArgs(args) ==
    IF args.kind = "array" /\ Len(args.items) = 2
    THEN [arg1 |-> args.items[1], arg2 |-> args.items[2]]
    ELSE [arg1 |-> Undef, arg2 |-> Undef]

\* the validator the discriminator selects
SelectValidator(validationType) ==
    IF validationType \in {"before", "after", "between"} THEN validationType ELSE "validate"

\* if (isValid || options?.formatOnError)
FormatStepGuard(isValid, options) == isValid \/ Truthy(options.formatOnError)

\* an error that escapes before any validator is entered
Thrown(r) ==
    Outcome([Begin(r) EXCEPT !.threw = TRUE], FALSE, <<>>, NoDate, NoDate, NoDate)

\* the record as a call leaves it
After(r, c) == [mode |-> r.mode, value |-> c.value, errors |-> c.errors, infos |-> c.infos]

\* the validator step of the facade, with the names of the validators entered
FacadeValidator(r, sel, validationArgs, dateFormat, options, tb, tv) ==
    IF sel = "before"
    THEN IF FirstArg(validationArgs).threw THEN [out |-> Thrown(r), trace |-> <<>>]
         ELSE [out |-> before(r, FirstArg(validationArgs).text, dateFormat, options, tb, tv),
               trace |-> <<sel>>]
    ELSE IF sel = "after"
    THEN IF FirstArg(validationArgs).threw THEN [out |-> Thrown(r), trace |-> <<>>]
         ELSE [out |-> after(r, FirstArg(validationArgs).text, dateFormat, options, tb, tv),
               trace |-> <<sel>>]
    ELSE IF sel = "between"
    THEN [out |-> between(r, BetweenArgs(validationArgs).arg1, BetweenArgs(validationArgs).arg2,
                          dateFormat, options, tb, tv),
          trace |-> <<sel>>]
    ELSE [out |-> validate(r, dateFormat, options, tv), trace |-> <<sel>>]

\* the finishing step: format runs on the record as the validator left it
FacadeFormat(r, v, dateFormat, options, tv) ==
    IF ~v.out.ctx.threw /\ FormatStepGuard(v.out.valid, options)
    THEN The({ [ctx |-> [f.ctx EXCEPT !.sets = v.out.ctx.sets \o @,
                                      !.errCalls = v.out.ctx.errCalls + @,
                                      !.infoCalls = v.out.ctx.infoCalls + @],
                valid |-> v.out.valid, formatted |-> f.formatted,
                inputDate |-> v.out.inputDate, bound1 |-> v.out.bound1, bound2 |-> v.out.bound2,
                trace |-> Append(v.trace, "format")] :
               f \in {format(After(r, v.out.ctx), dateFormat, options, tv)} })
    ELSE [ctx |-> v.out.ctx, valid |-> v.out.valid, formatted |-> <<>>,
          inputDate |-> v.out.inputDate, bound1 |-> v.out.bound1, bound2 |-> v.out.bound2,
          trace |-> v.trace]

evaluateAndFormat(r, validationType, dateFormat, validationArgs, options, tb, tv) ==
    The({ FacadeFormat(r, v, dateFormat, options, tv) :
          v \in {FacadeValidator(r, SelectValidator(validationType), validationArgs,
                                 dateFormat, options, tb, tv)} })

(***************************************************************************)
(* The string helpers that share the option conventions:                   *)
(* StringValidator.format (with formatOptions.case as its only formatting  *)
(* key) and StringValidator.matchesPattern.                                *)
(***************************************************************************)
LowerSet == { Lowers[i] : i \in 1..26 }

UpperTable == [c \in LowerSet |-> Uppers[CHOOSE i \in 1..26 : Lowers[i] = c]]

UpperChar(c) == IF c \in LowerSet THEN UpperTable[c] ELSE c

\* String.prototype.toUpperCase
ToUpperCase(s) == [i \in 1..Len(s) |-> UpperChar(s[i])]

\* String(value || '')
StringOrEmpty(value) == IF TruthyText(value) THEN value ELSE <<>>

\* switch (formatOptions.case)
ApplyCase(formatted, case) ==
    IF case = "upper" THEN ToUpperCase(formatted)
    ELSE IF case = "lower" THEN ToLowerCase(formatted)
    ELSE formatted

\* options?.addInfo !== false && !isRecordWithoutLinks
StringInfoGuard(options, links) == NotFalse(options.addInfo) /\ links

\* options?.setRecord !== false && !isRecordWithoutLinks
StringSetGuard(options, links) == NotFalse(options.setRecord) /\ links

StringFormatEffects(r, formatted, options) ==
    LET c0 == Begin(r)
        links == ~ReadField(c0).isRecordWithoutLinks
        c1 == IF StringInfoGuard(options, links) THEN RecordAddInfo(c0) ELSE c0
        c2 == IF StringSetGuard(options, links) THEN RecordSet(c1, formatted) ELSE c1
    IN  Outcome(c2, FALSE, formatted, NoDate, NoDate, NoDate)

StringValidator_format(r, case, options) ==
    IF ~TruthyText(ReadField(r).value) /\ ~Truthy(options.formatOnEmpty)
    THEN Outcome(Begin(r), FALSE, ReadField(r).value, NoDate, NoDate, NoDate)
    ELSE The({ StringFormatEffects(r, formatted, options) :
               formatted \in {ApplyCase(StringOrEmpty(ReadField(r).value), case)} })

\* a faulty SSN pattern: nine digits, no group turned away
NineDigits(value) == Len(value) = 9 /\ \A i \in 1..9 : IsDigit(value[i])

\* ssnPattern.test(value): /^(?!000|666|9\d{2})\d{3}(?!00)\d{2}(?!0000)\d{4}$/
SsnPattern(value) ==
    /\ Len(value) = 9
    /\ \A i \in 1..9 : IsDigit(value[i])
    /\ SubSeq(value, 1, 3) \notin {<<"0","0","0">>, <<"6","6","6">>}
    /\ value[1] # "9"
    /\ SubSeq(value, 4, 5) # <<"0","0">>
    /\ SubSeq(value, 6, 9) # <<"0","0","0","0">>

\* emailPattern.test(value), case-insensitive: a local part of dot-separated
\* atoms or a quoted string, "@", and a domain that is an address literal
\* or dot-separated labels ending in two or more letters
EmailPattern(value) ==
    LET Letter(c) == c \in LowerSet \/ c \in UpperSet
        Atom(a) == /\ Len(a) > 0
                   /\ \A i \in 1..Len(a) :
                         a[i] \notin {"<", ">", "(", ")", "[", "]", "\\", ".", ",", ";", ":",
                                      " ", "@", "\""}
        Label(l) == Len(l) > 0 /\ \A i \in 1..Len(l) : Letter(l[i]) \/ IsDigit(l[i]) \/ l[i] = "-"
        Octet(o) == Len(o) \in 1..3 /\ AllDigits(o)
        Local(l) ==
            \/ LET atoms == SplitOn(l, {"."}) IN \A i \in 1..Len(atoms) : Atom(atoms[i])
            \/ Len(l) >= 3 /\ l[1] = "\"" /\ l[Len(l)] = "\""
        Domain(d) ==
            \/ /\ Len(d) >= 2 /\ d[1] = "[" /\ d[Len(d)] = "]"
               /\ LET octets == SplitOn(SubSeq(d, 2, Len(d) - 1), {"."})
                  IN  Len(octets) = 4 /\ \A i \in 1..4 : Octet(octets[i])
            \/ LET labels == SplitOn(d, {"."})
                   tld == labels[Len(labels)]
               IN  /\ Len(labels) >= 2
                   /\ \A i \in 1..(Len(labels) - 1) : Label(labels[i])
                   /\ Len(tld) >= 2 /\ \A i \in 1..Len(tld) : Letter(tld[i])
    IN  \E at \in 1..Len(value) :
            /\ value[at] = "@"
            /\ Local(SubSeq(value, 1, at - 1))
            /\ Domain(SubSeq(value, at + 1, Len(value)))

\* pattern.test(value) for /^\d{4}-\d{2}-\d{2}$/, /^[a-z]+$/, the SSN pattern and
\* the e-mail pattern
PatternTest(pattern, value) ==
    IF pattern = "ssn" THEN SsnPattern(value)
    ELSE IF pattern = "email" THEN EmailPattern(value)
    ELSE IF pattern = "isoShape"
    THEN /\ Len(value) = 10
         /\ \A i \in 1..10 : IF i \in {5, 8} THEN value[i] = "-" ELSE IsDigit(value[i])
    ELSE Len(value) > 0 /\ \A i \in 1..Len(value) : value[i] \in LowerSet

StringValidator_matchesPattern(r, pattern, options) ==
    LET c0 == Begin(r)
        rd == ReadField(c0)
        links == ~rd.isRecordWithoutLinks
        valid == TruthyText(rd.value) /\ PatternTest(pattern, rd.value)
        c1 == IF ErrorGuard(rd.value, valid, options, links) THEN RecordAddError(c0) ELSE c0
    IN  Outcome(c1, valid, <<>>, NoDate, NoDate, NoDate)

\* value.replace(/\D/g, '')
DigitsOnly(value) == SelectSeq(value, IsDigit)

\* {...options, preprocessedValue: digitsOnly}
WithPreprocessed(options, digitsOnly) ==
    [name \in DOMAIN options \cup {"preprocessedValue"} |->
        IF name = "preprocessedValue" THEN digitsOnly ELSE options[name]]

\* isSSN: the digits of the value are handed to matchesPattern as
\* preprocessedValue; a value that is no string has no replace
StringValidator_isSSN(r, options) ==
    IF IsUndef(ReadField(Begin(r)).value) /\ ReadField(Begin(r)).isRecordWithoutLinks
    THEN Thrown(r)
    ELSE The({ StringValidator_matchesPattern(r, "ssn", WithPreprocessed(options, digitsOnly)) :
               digitsOnly \in {DigitsOnly(StringOrEmpty(ReadField(Begin(r)).value))} })

\* isEmail hands the e-mail pattern and the caller's options to matchesPattern
StringValidator_isEmail(r, options) == StringValidator_matchesPattern(r, "email", options)

\* phoneUtil.parse(value) and phoneUtil.isValidNumber(...) without a default
\* region, for the numbers of the North American plan: a leading "+", the
\* country code 1 and ten national digits whose area code and exchange start
\* with 2..9, punctuated by blanks, dashes, dots and brackets; parse throws on
\* anything without the "+" or without digits
PhoneValid(value) ==
    /\ Len(value) > 1
    /\ value[1] = "+"
    /\ \A i \in 2..Len(value) : IsDigit(value[i]) \/ value[i] \in {" ", "-", ".", "(", ")"}
    /\ LET digits == DigitsOnly(value)
       IN  /\ Len(digits) = 11
           /\ digits[1] = "1"
           /\ digits[2] \notin {"0", "1"}
           /\ digits[5] \notin {"0", "1"}

\* the body isPhone, hasLength, min and max share: the verdict on a
\* non-empty value, then the error annotation
StringVerdict(r, valid, options) ==
    LET c0 == Begin(r)
        rd == ReadField(c0)
        c1 == IF ErrorGuard(rd.value, valid, options, ~rd.isRecordWithoutLinks)
              THEN RecordAddError(c0) ELSE c0
    IN  Outcome(c1, valid, <<>>, NoDate, NoDate, NoDate)

StringValidator_isPhone(r, options) ==
    StringVerdict(r, TruthyText(r.value) /\ PhoneValid(r.value), options)

StringValidator_hasLength(r, min, max, options) ==
    StringVerdict(r, TruthyText(r.value) /\ Len(r.value) >= min /\ Len(r.value) <= max, options)

StringValidator_min(r, min, options) ==
    StringVerdict(r, TruthyText(r.value) /\ Len(r.value) >= min, options)

StringValidator_max(r, max, options) ==
    StringVerdict(r, TruthyText(r.value) /\ Len(r.value) <= max, options)

\* the shapes of validationArgs of the string facade: a pattern, a number,
\* an array of numbers, an object with a phone format
PatternArg(pattern) == [kind |-> "pattern", pattern |-> pattern]

NumberArg(n) == [kind |-> "number", n |-> n]

NumberArgs(nums) == [kind |-> "numbers", nums |-> nums]

PhoneFormatArg(phoneFormat) == [kind |-> "phoneFormat", phoneFormat |-> phoneFormat]

\* what isPhone receives as its options from the facade: validationArgs?.format,
\* a phone format or undefined, on which every option reads as unset
PhoneOptions(validationArgs, options) == NoOptions

\* arg1 and arg2 of the HAS_LENGTH case; null compares as 0
LengthArgs(validationArgs) ==
    IF validationArgs.kind = "numbers" /\ Len(validationArgs.nums) = 2
    THEN [arg1 |-> validationArgs.nums[1], arg2 |-> validationArgs.nums[2]]
    ELSE [arg1 |-> 0, arg2 |-> 0]

\* the switch of StringValidator.evaluateAndFormat
StringFacadeValidator(r, validationType, validationArgs, options) ==
    IF validationType = "isEmail" THEN StringValidator_isEmail(r, options)
    ELSE IF validationType = "isPhone"
    THEN StringValidator_isPhone(r, PhoneOptions(validationArgs, options))
    ELSE IF validationType = "isSSN" THEN StringValidator_isSSN(r, options)
    ELSE IF validationType = "matchesPattern"
    THEN StringValidator_matchesPattern(r, validationArgs.pattern, options)
    ELSE IF validationType = "hasLength"
    THEN StringValidator_hasLength(r, LengthArgs(validationArgs).arg1,
                                   LengthArgs(validationArgs).arg2, options)
    ELSE IF validationType = "min" THEN StringValidator_min(r, validationArgs.n, options)
    ELSE IF validationType = "max" THEN StringValidator_max(r, validationArgs.n, options)
    ELSE Outcome(Begin(r), ~IsUndef(r.value), <<>>, NoDate, NoDate, NoDate)

\* a second step on the record as the first left it; the verdict is the
\* first step's
StringThen(r, v, f) ==
    [ctx |-> [f.ctx EXCEPT !.sets = v.ctx.sets \o @,
                           !.errCalls = v.ctx.errCalls + @,
                           !.infoCalls = v.ctx.infoCalls + @],
     valid |-> v.valid, formatted |-> f.formatted,
     inputDate |-> NoDate, bound1 |-> NoDate, bound2 |-> NoDate]

\* if (isValid || options?.formatOnError || isRecordWithoutLinks); only the
\* VALIDATE case reads the record and can set isRecordWithoutLinks
StringFormatStepGuard(r, validationType, isValid, options) ==
    \/ isValid
    \/ Truthy(options.formatOnError)
    \/ /\ validationType \notin {"isEmail", "isPhone", "isSSN", "matchesPattern",
                                 "hasLength", "min", "max"}
       /\ ReadField(Begin(r)).isRecordWithoutLinks

StringValidator_evaluateAndFormat(r, validationType, case, validationArgs, options) ==
    The({ IF ~v.ctx.threw /\ StringFormatStepGuard(r, validationType, v.valid, options)
          THEN The({ StringThen(r, v, f) :
                     f \in {StringValidator_format(After(r, v.ctx), case, options)} })
          ELSE v :
          v \in {StringFacadeValidator(r, validationType, validationArgs, options)} })

InvalidSsnText == <<"I","n","v","a","l","i","d"," ","S","S","N">>

\* `${digitsOnly.slice(0, 3)}-${digitsOnly.slice(3, 5)}-${digitsOnly.slice(5)}`
DashSsn(digitsOnly) ==
    LET Slice(a, b) == SubSeq(digitsOnly, a, IF b < Len(digitsOnly) THEN b ELSE Len(digitsOnly))
    IN  Slice(1, 3) \o <<"-">> \o Slice(4, 5) \o <<"-">> \o Slice(6, Len(digitsOnly))

\* formatSSN: isSSN is asked without options; a valid value is rendered from
\* its digits, an invalid one becomes "Invalid SSN" when setRecord is on
StringValidator_formatSSN(r, options) ==
    LET c0 == Begin(r)
        rd == ReadField(c0)
        links == ~rd.isRecordWithoutLinks
        value == IF links THEN StringOrEmpty(rd.value) ELSE rd.value
    IN  IF ~TruthyText(value) /\ ~Truthy(options.formatOnEmpty)
        THEN Outcome(c0, FALSE, value, NoDate, NoDate, NoDate)
        ELSE The({ IF v.ctx.threw THEN v
                   ELSE LET formatted == IF v.valid THEN DashSsn(DigitsOnly(value))
                                         ELSE IF Truthy(options.setRecord) THEN InvalidSsnText
                                         ELSE value
                            c1 == IF /\ v.valid /\ Truthy(options.addInfo)
                                     /\ Truthy(options.setRecord) /\ links
                                  THEN RecordAddInfo(c0) ELSE c0
                            c2 == IF Truthy(options.setRecord) /\ links
                                  THEN RecordSet(c1, formatted) ELSE c1
                        IN  Outcome(c2, v.valid, formatted, NoDate, NoDate, NoDate) :
                   v \in {StringValidator_isSSN(r, NoOptions)} })

\* evaluateAndFormatSSN: isSSN with the caller's options, then formatSSN
\* under isValid || options?.formatOnError
StringValidator_evaluateAndFormatSSN(r, options) ==
    The({ IF ~v.ctx.threw /\ FormatStepGuard(v.valid, options)
          THEN The({ StringThen(r, v, f) :
                     f \in {StringValidator_formatSSN(After(r, v.ctx), options)} })
          ELSE v :
          v \in {StringValidator_isSSN(r, options)} })

(***************************************************************************)
(* The inputs: field values, bounds, formats, options.                     *)
(***************************************************************************)
Empty == <<>>

Mar15 == <<"2","0","2","4","-","0","3","-","1","5">>

Jan01 == <<"2","0","2","4","-","0","1","-","0","1">>

Jun15 == <<"2","0","2","4","-","0","6","-","1","5">>

Banana == <<"b","a","n","a","n","a">>

NowPlus5Days == <<"n","o","w","+","5","d","a","y","s">>

FmtUS == <<"M","M","/","D","D","/","Y","Y","Y","Y">>

FieldValues == {Undef, Empty, Mar15, Jan01, Jun15, Banana, NowWord, NowPlus5Days}

BoundTexts == {Jan01, Jun15, NowWord}

Formats == {Undef, FmtUS, Banana}

FacadeFormats == {Undef, FmtUS}

ValidatorOptions ==
    { [NoOptions EXCEPT !.addError = a, !.validateOnEmpty = v] :
        a \in OptVals, v \in {"unset", "true"} }

FormatOptions ==
    { [NoOptions EXCEPT !.setRecord = s, !.addInfo = i, !.formatOnEmpty = e] :
        s \in OptVals, i \in {"unset", "true"}, e \in {"unset", "true"} }

FacadeOptions ==
    { [NoOptions EXCEPT !.addError = a, !.setRecord = s, !.formatOnError = f] :
        a \in {"unset", "true"}, s \in {"unset", "true"}, f \in {"unset", "true"} }

StringFormatOptions ==
    { [NoOptions EXCEPT !.setRecord = s, !.addInfo = i, !.formatOnEmpty = e] :
        s \in OptVals, i \in {"unset", "false"}, e \in {"unset", "true"} }

Cases == {"none", "upper"}

Patterns == {"isoShape", "letters"}

ValidationTypes == {"validate", "before", "after", "between", "other"}

BoundPairs == { <<Jan01, Jun15>>, <<Jan01, Jan01>>, <<Jun15, Jan01>>,
                <<NowWord, Jun15>>, <<Banana, Jun15>>, <<Jan01, Banana>> }

\* the shapes of validationArgs tried for a validation type
FacadeArgs(validationType) ==
    IF validationType \in {"before", "after"}
    THEN {NoArgs, ScalarArg(NowWord), ArrayArgs(<<>>), ArrayArgs(<<Jan01>>)}
    ELSE IF validationType = "between"
    THEN {NoArgs, ScalarArg(Jan01), ArrayArgs(<<>>), ArrayArgs(<<Jan01>>),
          ArrayArgs(<<Jan01, Jun15, Jun15>>), ArrayArgs(<<Jan01, Jun15>>)}
    ELSE {NoArgs}

(***************************************************************************)
(* The state machine: a caller makes up to MaxCalls calls on one record.   *)
(* last holds the call just made, with its inputs and its outcome, until   *)
(* the caller goes on.                                                     *)
(***************************************************************************)
Idle == [op |-> "idle"]

\* no auto-transform job is configured
NoJob == [pc |-> "none"]

Init ==
    /\ rec \in [mode : Modes, value : FieldValues, errors : {0}, infos : {0}]
    /\ clock = 0
    /\ calls = 0
    /\ last = Idle
    /\ job = NoJob

Ready == last = Idle /\ calls < MaxCalls

Ticks == clock..MaxTick

Called(op, validationType, bounds, dateFormat, validationArgs, options, out, t) ==
    /\ rec' = After(rec, out.ctx)
    /\ clock' = t
    /\ calls' = calls + 1
    /\ last' = [op |-> op, type |-> validationType, pre |-> rec, bounds |-> bounds,
                dateFormat |-> dateFormat, args |-> validationArgs, options |-> options,
                out |-> out]
    /\ UNCHANGED job

Validate ==
    /\ Ready
    /\ \E dateFormat \in Formats, options \in ValidatorOptions, t \in Ticks :
          \E out \in {validate(rec, dateFormat, options, t)} :
              Called("validate", "", <<>>, dateFormat, NoArgs, options, out, t)

Format ==
    /\ Ready
    /\ \E dateFormat \in Formats, options \in FormatOptions, t \in Ticks :
          \E out \in {format(rec, dateFormat, options, t)} :
              Called("format", "", <<>>, dateFormat, NoArgs, options, out, t)

\* a comparison validator reads the clock for its bounds first, then for the field value
Before ==
    /\ Ready
    /\ \E dateBefore \in BoundTexts, dateFormat \in Formats, options \in ValidatorOptions,
          tv \in Ticks :
          \E out \in {before(rec, dateBefore, dateFormat, options, clock, tv)} :
              Called("before", "", <<dateBefore>>, dateFormat, NoArgs, options, out, tv)

AfterCall ==
    /\ Ready
    /\ \E dateAfter \in BoundTexts, dateFormat \in Formats, options \in ValidatorOptions,
          tv \in Ticks :
          \E out \in {after(rec, dateAfter, dateFormat, options, clock, tv)} :
              Called("after", "", <<dateAfter>>, dateFormat, NoArgs, options, out, tv)

Between ==
    /\ Ready
    /\ \E pair \in BoundPairs, dateFormat \in Formats, options \in ValidatorOptions,
          tv \in Ticks :
          \E out \in {between(rec, pair[1], pair[2], dateFormat, options, clock, tv)} :
              Called("between", "", pair, dateFormat, NoArgs, options, out, tv)

EvaluateAndFormat ==
    /\ Ready
    /\ \E validationType \in ValidationTypes, dateFormat \in FacadeFormats,
          options \in FacadeOptions, tv \in Ticks :
          \E validationArgs \in FacadeArgs(validationType) :
             \E out \in {evaluateAndFormat(rec, validationType, dateFormat, validationArgs,
                                          options, clock, tv)} :
                 Called("evaluateAndFormat", validationType, <<>>, dateFormat,
                        validationArgs, options, out, tv)

StringFormat ==
    /\ Ready
    /\ \E case \in Cases, options \in StringFormatOptions :
          \E out \in {StringValidator_format(rec, case, options)} :
              Called("StringValidator.format", case, <<>>, Undef, NoArgs, options, out, clock)

MatchesPattern ==
    /\ Ready
    /\ \E pattern \in Patterns, options \in ValidatorOptions :
          \E out \in {StringValidator_matchesPattern(rec, pattern, options)} :
              Called("StringValidator.matchesPattern", pattern, <<>>, Undef, NoArgs, options,
                     out, clock)

\* the caller takes the outcome and goes on
Return ==
    /\ last # Idle
    /\ last' = Idle
    /\ UNCHANGED <<rec, clock, calls, job>>

Next ==
    \/ Validate \/ Format \/ Before \/ AfterCall \/ Between \/ EvaluateAndFormat
    \/ StringFormat \/ MatchesPattern \/ Return

Spec == Init /\ [][Next]_vars

(***************************************************************************)
(* The auto-transform job.  The sheet has one field under transformation;  *)
(* params.transformFunctions is a list of callbacks, each synchronous or   *)
(* an AsyncFunction.  The calls of the API are taken to succeed.  The      *)
(* callbacks forEach started for an AsyncFunction resolve one by one, at   *)
(* any moment after executeTransform has returned its updates array.       *)
(***************************************************************************)
RecordIds == {"r1", "r2"}

CellValues == {"x", "y", "z"}

\* callbackFunction(record), as a function of the field value
Callback(fn, value) ==
    IF fn = "keep" THEN value
    ELSE IF fn = "toY" THEN "y"
    ELSE IF value = "x" THEN "y" ELSE "z"

TransformFunctions == [fn : {"keep", "toY", "next"}, kind : {"sync", "async"}]

TransformLists ==
    UNION { [1..n -> TransformFunctions] : n \in 1..MaxTransforms }

Sheets == [RecordIds -> CellValues]

NoData == [id \in {} |-> "x"]

Logged(call, data) == Append(job.log, [call |-> call, i |-> job.i, data |-> data])

JobFrame == UNCHANGED <<rec, clock, calls, last>>

InitJob ==
    /\ rec = [mode |-> "full", value |-> Empty, errors |-> 0, infos |-> 0]
    /\ clock = 0
    /\ calls = 0
    /\ last = Idle
    /\ job \in { [pc |-> "listening", params |-> params, i |-> 0, sheet |-> sheet,
                   records |-> sheet, pending |-> {}, updates |-> {}, log |-> <<>>] :
                 params \in TransformLists, sheet \in Sheets }

\* job:completed of workbook:map: the auto-transform job is created and executed
MapCompleted ==
    /\ job.pc = "listening"
    /\ job' = [job EXCEPT !.pc = "created"]
    /\ JobFrame

\* job:created: api.jobs.ack, then the loop is entered
JobsAck ==
    /\ job.pc = "created"
    /\ job' = [job EXCEPT !.pc = "next", !.i = 1, !.log = Logged("jobs.ack", NoData)]
    /\ JobFrame

\* the loop takes the next transformFunction: api.jobs.update
JobsUpdate ==
    /\ job.pc = "next"
    /\ job.i <= Len(job.params)
    /\ job' = [job EXCEPT !.pc = "get", !.log = Logged("jobs.update", NoData)]
    /\ JobFrame

\* executeTransform: api.records.get, then forEach over the records.  A
\* synchronous callback runs to its end inside forEach; an AsyncFunction is
\* started for every record and awaited by no one; `updates` is returned
ExecuteTransform ==
    /\ job.pc = "get"
    /\ LET fn == job.params[job.i].fn
           sync == job.params[job.i].kind = "sync"
       IN  job' = [job EXCEPT
                    !.pc = "returned",
                    !.records = IF sync THEN [id \in RecordIds |-> Callback(fn, job.sheet[id])]
                                ELSE job.sheet,
                    !.updates = IF sync
                                THEN {id \in RecordIds : Callback(fn, job.sheet[id]) # job.sheet[id]}
                                ELSE {},
                    !.pending = IF sync THEN {} ELSE RecordIds,
                    !.log = Logged("records.get", job.sheet)]
    /\ JobFrame

\* the callback of one record resolves: the rest of the forEach body runs
CallbackResolves ==
    /\ \E id \in job.pending :
          LET oldValue == job.records[id]
              newValue == Callback(job.params[job.i].fn, oldValue)
          IN  job' = [job EXCEPT
                       !.pending = @ \ {id},
                       !.records[id] = newValue,
                       !.updates = IF newValue # oldValue THEN @ \cup {id} ELSE @]
    /\ JobFrame

\* api.snapshots.createSnapshot, labelled with the transform
CreateSnapshot ==
    /\ job.pc = "returned"
    /\ job' = [job EXCEPT !.pc = "snapshot", !.log = Logged("createSnapshot", job.sheet)]
    /\ JobFrame

\* if (updates.length > 0) api.records.update(sheetId, updates); then the
\* loop goes on.  Callbacks that resolve later push into an array that is
\* read no more
RecordsUpdate ==
    /\ job.pc = "snapshot"
    /\ job' = [job EXCEPT
                 !.pc = "next",
                 !.i = @ + 1,
                 !.sheet = [id \in RecordIds |->
                              IF id \in job.updates THEN job.records[id] ELSE @[id]],
                 !.pending = {},
                 !.updates = {},
                 !.log = IF job.updates # {}
                         THEN Logged("records.update", [id \in job.updates |-> job.records[id]])
                         ELSE @]
    /\ JobFrame

\* after the last transformFunction: api.jobs.complete
JobsComplete ==
    /\ job.pc = "next"
    /\ job.i > Len(job.params)
    /\ job' = [job EXCEPT !.pc = "complete", !.log = Logged("jobs.complete", NoData)]
    /\ JobFrame

NextJob ==
    \/ MapCompleted \/ JobsAck \/ JobsUpdate \/ ExecuteTransform \/ CallbackResolves
    \/ CreateSnapshot \/ RecordsUpdate \/ JobsComplete

SpecJob == InitJob /\ [][NextJob]_vars

(***************************************************************************)
(* The string validators on fields that hold Social Security Numbers.      *)
(***************************************************************************)
\* field values: an SSN plain and with dashes, values with a group the SSN
\* pattern turns away (nine digits, dashed, five and ten digits), no SSN, an
\* e-mail address and a phone number
SsnValues ==
    LET area   == <<"1","2","3">>
        group  == <<"4","5">>
        serial == <<"6","7","8","9">>
        zeros  == <<"0","0","0","0">>
        Dashed(a, g, n) == a \o <<"-">> \o g \o <<"-">> \o n
    IN  { Undef, Empty, Banana,
          <<"a","@","b",".","c","o">>,
          <<"+","1","6","5","0","2","5","3","0","0","0","0">>,
          area \o group \o serial,
          Dashed(area, group, serial),
          SubSeq(zeros, 1, 3) \o group \o serial,
          zeros \o zeros \o <<"0">>,
          <<"6","6","6">> \o group \o serial,
          <<"9","0","0">> \o group \o serial,
          area \o <<"0","0">> \o serial,
          area \o group \o zeros,
          Dashed(SubSeq(zeros, 1, 3), group, serial),
          Dashed(area, <<"0","0">>, serial),
          SubSeq(zeros, 1, 3) \o group,
          SubSeq(zeros, 1, 3) \o group \o serial \o <<"0">> }

InitSsn ==
    /\ rec \in [mode : Modes, value : SsnValues, errors : {0}, infos : {0}]
    /\ clock = 0
    /\ calls = 0
    /\ last = Idle
    /\ job = NoJob

IsSSN ==
    /\ Ready
    /\ \E options \in ValidatorOptions :
          \E out \in {StringValidator_isSSN(rec, options)} :
              Called("StringValidator.isSSN", "ssn", <<>>, Undef, NoArgs, options, out, clock)

\* the values of validationArgs tried for a type of the string facade
StringFacadeArgs(validationType) ==
    IF validationType = "isPhone" THEN {NoArgs, PhoneFormatArg("E164")}
    ELSE IF validationType = "matchesPattern" THEN {PatternArg("letters")}
    ELSE IF validationType = "hasLength" THEN {NoArgs, NumberArgs(<<7, 9>>), NumberArgs(<<7>>)}
    ELSE IF validationType = "min" THEN {NumberArg(7)}
    ELSE IF validationType = "max" THEN {NumberArg(9)}
    ELSE {NoArgs}

StringValidationTypes ==
    {"isEmail", "isPhone", "isSSN", "matchesPattern", "hasLength", "min", "max", "validate"}

StringEvaluateAndFormat ==
    /\ Ready
    /\ \E validationType \in StringValidationTypes, case \in Cases, options \in FacadeOptions :
          \E validationArgs \in StringFacadeArgs(validationType) :
             \E out \in {StringValidator_evaluateAndFormat(rec, validationType, case,
                                                          validationArgs, options)} :
                 Called("StringValidator.evaluateAndFormat", validationType, <<>>, Undef,
                        validationArgs, options, out, clock)

FormatSSN ==
    /\ Ready
    /\ \E options \in FormatOptions :
          \E out \in {StringValidator_formatSSN(rec, options)} :
              Called("StringValidator.formatSSN", "ssn", <<>>, Undef, NoArgs, options, out, clock)

EvaluateAndFormatSSN ==
    /\ Ready
    /\ \E options \in FacadeOptions :
          \E out \in {StringValidator_evaluateAndFormatSSN(rec, options)} :
              Called("StringValidator.evaluateAndFormatSSN", "ssn", <<>>, Undef, NoArgs, options,
                     out, clock)

NextSsn ==
    \/ IsSSN \/ MatchesPattern \/ StringFormat \/ StringEvaluateAndFormat
    \/ FormatSSN \/ EvaluateAndFormatSSN \/ Return

SpecSsn == InitSsn /\ [][NextSsn]_vars

(***************************************************************************)
(* The helpers on their own: isDate, formatDate, parseDate and             *)
(* parseDateArgument applied to texts, dates and format strings, and       *)
(* validate applied to a record holding a text.  last holds the            *)
(* application just made.                                                  *)
(***************************************************************************)
FmtDayFirst == <<"D","D","/","M","M","/","Y","Y","Y","Y">>

FmtIso == <<"Y","Y","Y","Y","-","M","M","-","D","D">>

FmtLong == <<"M","M","M","M"," ","D","D",","," ","Y","Y","Y","Y">>

FmtShortYear == <<"M","/","D","/","Y","Y">>

FmtShortMonth == <<"M","M","M"," ","D"," ","Y","Y","Y","Y">>

FmtYY == <<"y","y">>

FmtYYMM == <<"y","y","-","m","m">>

FmtMMDD == <<"m","m","/","d","d">>

FmtFour == <<"y","y","y","y","-","m","m","-","d","d","-","y","y","y","y">>

\* formats of three components built from the documented tokens
WellFormedFormats == {FmtUS, FmtDayFirst, FmtIso, FmtLong, FmtShortYear, FmtShortMonth}

\* formats whose classification does not give three components
MalformedFormats == {Banana, FmtYY, FmtYYMM, FmtMMDD, FmtFour}

\* the format of the created_date constraint of the projects sheet
FmtTimestamp == <<"Y","Y","Y","Y","-","M","M","-","D","D","T","H","H",":","m","m",":","s","s","Z">>

\* formats with each delimiter, with two delimiters, and with a month name
\* next to a literal delimiter
DelimiterFormats ==
    { <<"D","D",".","M","M",".","Y","Y","Y","Y">>,
      <<"Y","Y","Y","Y"," ","M","M"," ","D","D">>,
      <<"M","M","/","D","D","-","Y","Y","Y","Y">>,
      <<"D",".","M","-","Y","Y">>,
      <<"D","D","-","M","M","M","-","Y","Y","Y","Y">>,
      <<"M","M","M","M","/","D","/","Y","Y","Y","Y">>,
      FmtTimestamp }

PureFormats == WellFormedFormats \cup MalformedFormats \cup DelimiterFormats \cup {Undef}

PureDates == { Noon(2024, 3, 5), Noon(2024, 3, 15), Noon(2024, 12, 25),
               Noon(1999, 1, 31), Noon(2024, 2, 29) }

\* clock readings: a day and a tick before noon
PureNows == { [date EXCEPT !.tod = k] : date \in PureDates, k \in 0..MaxTick }

NowUpper == <<"N","O","W">>

NowPlus0Days == <<"n","o","w","+","0","d","a","y","s">>

NowMinus0Days == <<"n","o","w","-","0","d","a","y","s">>

NowPlus0Day == <<"n","o","w","+","0","d","a","y">>

NowPlus0DaysMixed == <<"N","o","w","+","0","D","a","y","s">>

NowPlus0Months == <<"n","o","w","+","0","m","o","n","t","h","s">>

NowPlus0Years == <<"n","o","w","+","0","y","e","a","r","s">>

NowMinus1Months == <<"n","o","w","-","1","m","o","n","t","h","s">>

NowPlus1Years == <<"n","o","w","+","1","y","e","a","r","s">>

UsDate == <<"0","3","/","1","5","/","2","0","2","4">>

LongDate == <<"M","a","r","c","h"," ","1","5"," ","2","0","2","4">>

ZeroOffsetTexts == {NowPlus0Days, NowMinus0Days, NowPlus0Day, NowPlus0DaysMixed,
                    NowPlus0Months, NowPlus0Years}

PureTexts == ZeroOffsetTexts \cup {Undef, Empty, NowWord, NowUpper, NowPlus5Days,
                                   NowMinus1Months, NowPlus1Years,
                                   Mar15, UsDate, LongDate, Banana}

PureInit ==
    /\ rec = [mode |-> "full", value |-> Empty, errors |-> 0, infos |-> 0]
    /\ clock = 0
    /\ calls = 0
    /\ last = Idle
    /\ job = NoJob

ApplyIsDate ==
    /\ Ready
    /\ \E text \in PureTexts, now \in PureNows :
        /\ last' = [op |-> "isDate", text |-> text, now |-> now, out |-> isDate(text, now)]
        /\ UNCHANGED <<rec, clock, calls, job>>

ApplyParseDateArgument ==
    /\ Ready
    /\ \E text \in PureTexts, now \in PureNows :
        /\ last' = [op |-> "parseDateArgument", text |-> text, now |-> now,
                    out |-> parseDateArgument(text, now)]
        /\ UNCHANGED <<rec, clock, calls, job>>

ApplyFormatDate ==
    /\ Ready
    /\ \E date \in PureDates, dateFormat \in PureFormats :
        /\ last' = [op |-> "formatDate", date |-> date, dateFormat |-> dateFormat,
                    out |-> formatDate(date, dateFormat)]
        /\ UNCHANGED <<rec, clock, calls, job>>

\* a date is rendered and the text is read back as a natural date
ApplyParseDate ==
    /\ Ready
    /\ \E date \in PureDates, dateFormat \in PureFormats, now \in PureNows :
        \E text \in {formatDate(date, dateFormat)} :
            /\ last' = [op |-> "parseDate", rendered |-> date, dateFormat |-> dateFormat,
                        text |-> text, now |-> now, out |-> parseDate(text, now)]
            /\ UNCHANGED <<rec, clock, calls, job>>

\* validate on a record that holds the text
ApplyValidate ==
    /\ Ready
    /\ \E text \in PureTexts, mode \in Modes, t \in Ticks :
        \E res \in {validate([rec EXCEPT !.mode = mode, !.value = text],
                             Undef, NoOptions, t)} :
            /\ last' = [op |-> "validate", text |-> text, mode |-> mode, out |-> res]
            /\ UNCHANGED <<rec, clock, calls, job>>

\* evaluateAndFormat with type validate and setRecord on a record that holds
\* the text, and once more on the record as the first call left it
ApplyEvaluateAndFormat ==
    /\ Ready
    /\ \E text \in {<<"2","0","2","4","-","0","3","-","0","5">>, Mar15, UsDate, NowWord, Banana},
          mode \in Modes, dateFormat \in WellFormedFormats, t \in Ticks :
        \E options \in {[NoOptions EXCEPT !.setRecord = "true"]} :
          \E res \in {evaluateAndFormat([rec EXCEPT !.mode = mode, !.value = text],
                                        "validate", dateFormat, NoArgs, options, t, t)} :
            /\ last' = [op |-> "evaluateAndFormat", text |-> text, mode |-> mode,
                        dateFormat |-> dateFormat, out |-> res,
                        again |-> evaluateAndFormat(
                                     After([rec EXCEPT !.mode = mode, !.value = text], res.ctx),
                                     "validate", dateFormat, NoArgs, options, t, t)]
            /\ UNCHANGED <<rec, clock, calls, job>>

PureNext ==
    \/ ApplyIsDate \/ ApplyParseDateArgument \/ ApplyFormatDate \/ ApplyParseDate
    \/ ApplyValidate \/ ApplyEvaluateAndFormat \/ Return

SpecPure == PureInit /\ [][PureNext]_vars

(***************************************************************************)
(* The extract-clients job (extract.clients.action.ts).  The action is a   *)
(* foreground action: nobody else edits the workbook while the job runs.   *)
(* job holds the two sheets, the handler's locals and the API calls made.  *)
(* The progress reports of tick() change none of these.                    *)
(***************************************************************************)
\* the longest projects sheet
MaxProjects == 2

\* a cell of a record: a string, or no value
CellAbsent == [kind |-> "undefined"]

Cell(text) == [kind |-> "string", text |-> text]

\* the property key a cell value becomes in uniqueClients[projectEmail]
ToPropertyKey(cell) == IF cell.kind = "undefined" THEN "undefined" ELSE cell.text

\* names every object literal inherits from Object.prototype
PrototypeKeys == {"constructor", "toString", "valueOf", "hasOwnProperty", "__proto__"}

\* the truth of uniqueClients[key]: an own property (always an object) or
\* an inherited one
KeyIsSet(uniqueClients, key) == key \in DOMAIN uniqueClients \/ key \in PrototypeKeys

\* the forEach over projectRecords, from project i on
RECURSIVE ExtractFrom(_, _, _)
ExtractFrom(projectRecords, i, uniqueClients) ==
    IF i > Len(projectRecords) THEN uniqueClients
    ELSE LET project == projectRecords[i]
             key == ToPropertyKey(project.primary_email)
         IN  IF KeyIsSet(uniqueClients, key)
             THEN ExtractFrom(projectRecords, i + 1, uniqueClients)
             ELSE ExtractFrom(projectRecords, i + 1,
                     [k \in DOMAIN uniqueClients \cup {key} |->
                         IF k = key
                         THEN [id |-> "new", primary_email |-> project.primary_email,
                               primary_name |-> project.primary_name]
                         ELSE uniqueClients[k]])

\* Object.values(uniqueClients)
ObjectValues(uniqueClients) == { uniqueClients[k] : k \in DOMAIN uniqueClients }

ProjectEmails ==
    {Cell("ann@x.io"), Cell("bob@x.io"), Cell("constructor"), Cell("undefined"), CellAbsent}

ProjectSheets ==
    UNION { [1..n -> [primary_email : ProjectEmails, primary_name : {"Ann", "Bob"}]] :
            n \in 0..MaxProjects }

ClientSheets ==
    LET old(id, email) == [id |-> id, primary_email |-> Cell(email), primary_name |-> "Old"]
    IN  { {}, {old("c1", "ann@x.io")}, {old("c1", "ann@x.io"), old("c2", "zoe@x.io")} }

InitClients ==
    /\ rec = [mode |-> "full", value |-> Undef, errors |-> 0, infos |-> 0]
    /\ clock = 0
    /\ calls = 0
    /\ last = Idle
    /\ job \in [pc : {"ready"}, projects : ProjectSheets, clientsSheet : ClientSheets,
                 before : ClientSheets, projectRecords : {<<>>}, clients : {{}},
                 uniqueClients : {<<>>}, log : {<<>>}]
    /\ job.before = job.clientsSheet

\* api.jobs.ack
ExtractAck ==
    /\ job.pc = "ready"
    /\ job' = [job EXCEPT !.pc = "acked", !.log = Append(@, "jobs.ack")]
    /\ UNCHANGED <<rec, clock, calls, last>>

\* api.records.get(sheetId)
LoadProjects ==
    /\ job.pc = "acked"
    /\ job' = [job EXCEPT !.pc = "projectsLoaded", !.projectRecords = job.projects,
                          !.log = Append(@, "records.get")]
    /\ UNCHANGED <<rec, clock, calls, last>>

\* api.sheets.list, the sheet with slug "clients", api.records.get of it
LoadClients ==
    /\ job.pc = "projectsLoaded"
    /\ job' = [job EXCEPT !.pc = "clientsLoaded", !.clients = job.clientsSheet,
                          !.log = Append(@, "records.get")]
    /\ UNCHANGED <<rec, clock, calls, last>>

\* the forEach that fills uniqueClients
ExtractClients ==
    /\ job.pc = "clientsLoaded"
    /\ job' = [job EXCEPT !.pc = "extracted",
                          !.uniqueClients = ExtractFrom(job.projectRecords, 1, <<>>)]
    /\ UNCHANGED <<rec, clock, calls, last>>

\* if (clients.length > 0) api.records.delete(clientsSheet.id, {ids})
ClearClients ==
    /\ job.pc = "extracted"
    /\ job' = IF job.clients # {}
              THEN [job EXCEPT !.pc = "cleared",
                               !.clientsSheet =
                                   { c \in @ : c.id \notin { old.id : old \in job.clients } },
                               !.log = Append(@, "records.delete")]
              ELSE [job EXCEPT !.pc = "cleared"]
    /\ UNCHANGED <<rec, clock, calls, last>>

\* api.records.insert(clientsSheet.id, Object.values(uniqueClients))
InsertClients ==
    /\ job.pc = "cleared"
    /\ job' = [job EXCEPT !.pc = "inserted",
                          !.clientsSheet = @ \cup ObjectValues(job.uniqueClients),
                          !.log = Append(@, "records.insert")]
    /\ UNCHANGED <<rec, clock, calls, last>>

\* api.jobs.complete
CompleteExtract ==
    /\ job.pc = "inserted"
    /\ job' = [job EXCEPT !.pc = "completed", !.log = Append(@, "jobs.complete")]
    /\ UNCHANGED <<rec, clock, calls, last>>

\* an API call rejects: the handler is left at that await
ApiRejects ==
    /\ job.pc \in {"ready", "acked", "projectsLoaded", "extracted", "cleared", "inserted"}
    /\ job.pc = "extracted" => job.clients # {}
    /\ job' = [job EXCEPT !.pc = "rejected"]
    /\ UNCHANGED <<rec, clock, calls, last>>

NextClients ==
    \/ ExtractAck \/ LoadProjects \/ LoadClients \/ ExtractClients \/ ClearClients
    \/ InsertClients \/ CompleteExtract \/ ApiRejects

SpecClients == InitClients /\ [][NextClients]_vars

(***************************************************************************)
(* The file:extractParquet job of ParquetExtract.  job holds the position  *)
(* of the handler (the stage, the next call of its try or catch block),    *)
(* the status row of the status workbook and the calls made, each with     *)
(* whether it threw.  The functions of the file that end in a throw        *)
(* statement can throw; the calls of api.jobs are taken to succeed.        *)
(***************************************************************************)
\* the calls of the try block of a stage
TrySteps(stage) ==
    IF stage = 1
    THEN <<"checkFileInS3", "jobs.update", "extractZipInS3", "updateStatusInWorkbook",
           "jobs.update">>
    ELSE IF stage = 2
    THEN <<"jobs.update", "convertParquetToCsv", "updateStatusInWorkbook", "jobs.update">>
    ELSE <<"jobs.update", "importToFlatfile", "updateStatusInWorkbook", "jobs.update">>

\* the calls of the catch block of every stage
CatchSteps == <<"updateStatusInWorkbook", "jobs.update", "jobs.fail">>

StageFunctions == {"checkFileInS3", "extractZipInS3", "convertParquetToCsv", "importToFlatfile"}

Throwing == StageFunctions \cup {"updateStatusInWorkbook"}

\* the status a stage writes on success and in its catch block
StageStatus(stage, failed) ==
    IF stage = 1 THEN (IF failed THEN "Extracting zip in S3 failed" ELSE "Extracted to S3")
    ELSE IF stage = 2
    THEN (IF failed THEN "Converting Parquet to CSV failed" ELSE "Converted Parquet to CSV")
    ELSE (IF failed THEN "Importing to Flatfile failed" ELSE "Imported to Flatfile")

\* updateStatusInWorkbook that does not throw: the row is left alone when it
\* holds the status already, and written otherwise
updateStatusInWorkbook(prevStatus, status) == IF prevStatus = status THEN prevStatus ELSE status

\* the status row when the job is made ready: as initFile left it, or as an
\* earlier run of the job on the file left it
InitialStatuses ==
    {"Uploaded to Flatfile"} \cup { StageStatus(stage, failed) : stage \in 1..3, failed \in BOOLEAN }

InitParquet ==
    /\ rec = [mode |-> "full", value |-> Undef, errors |-> 0, infos |-> 0]
    /\ clock = 0
    /\ calls = 0
    /\ last = Idle
    /\ job \in [pc : {"ready"}, stage : {1}, step : {1}, status : InitialStatuses, log : {<<>>}]

\* api.jobs.ack
ParquetAck ==
    /\ job.pc = "ready"
    /\ job' = [job EXCEPT !.pc = "try", !.log = Append(@, [call |-> "jobs.ack", threw |-> FALSE])]
    /\ UNCHANGED <<rec, clock, calls, last>>

\* the next call of the try block returns; after the last call of a stage
\* the handler enters the next stage, after the third it goes on to complete
TryCall ==
    /\ job.pc = "try"
    /\ LET call == TrySteps(job.stage)[job.step]
           last3 == job.step = Len(TrySteps(job.stage))
       IN  job' = [job EXCEPT
                      !.pc = IF last3 /\ job.stage = 3 THEN "completing" ELSE "try",
                      !.stage = IF last3 /\ job.stage < 3 THEN @ + 1 ELSE @,
                      !.step = IF last3 THEN 1 ELSE @ + 1,
                      !.status = IF call = "updateStatusInWorkbook"
                                 THEN updateStatusInWorkbook(@, StageStatus(job.stage, FALSE))
                                 ELSE @,
                      !.log = Append(@, [call |-> call, threw |-> FALSE])]
    /\ UNCHANGED <<rec, clock, calls, last>>

\* the next call of the try block throws: the catch block of the stage is entered
TryThrows ==
    /\ job.pc = "try"
    /\ TrySteps(job.stage)[job.step] \in Throwing
    /\ job' = [job EXCEPT !.pc = "catch", !.step = 1,
                          !.log = Append(@, [call |-> TrySteps(job.stage)[job.step],
                                             threw |-> TRUE])]
    /\ UNCHANGED <<rec, clock, calls, last>>

\* the next call of the catch block returns; after jobs.fail the handler returns
CatchCall ==
    /\ job.pc = "catch"
    /\ LET call == CatchSteps[job.step]
       IN  job' = [job EXCEPT
                      !.pc = IF call = "jobs.fail" THEN "returned" ELSE "catch",
                      !.step = IF call = "jobs.fail" THEN 1 ELSE @ + 1,
                      !.status = IF call = "updateStatusInWorkbook"
                                 THEN updateStatusInWorkbook(@, StageStatus(job.stage, TRUE))
                                 ELSE @,
                      !.log = Append(@, [call |-> call, threw |-> FALSE])]
    /\ UNCHANGED <<rec, clock, calls, last>>

\* a call of the catch block throws: no try block encloses it, the error
\* leaves the handler
CatchThrows ==
    /\ job.pc = "catch"
    /\ CatchSteps[job.step] \in Throwing
    /\ job' = [job EXCEPT !.pc = "escaped", !.step = 1,
                          !.log = Append(@, [call |-> CatchSteps[job.step], threw |-> TRUE])]
    /\ UNCHANGED <<rec, clock, calls, last>>

\* api.jobs.complete
ParquetComplete ==
    /\ job.pc = "completing"
    /\ job' = [job EXCEPT !.pc = "completed",
                          !.log = Append(@, [call |-> "jobs.complete", threw |-> FALSE])]
    /\ UNCHANGED <<rec, clock, calls, last>>

NextParquet ==
    \/ ParquetAck \/ TryCall \/ TryThrows \/ CatchCall \/ CatchThrows \/ ParquetComplete

SpecParquet == InitParquet /\ [][NextParquet]_vars

\* the event loop runs every continuation that is ready
SpecParquetFair == SpecParquet /\ WF_vars(NextParquet)

(***************************************************************************)
(* Properties.  Each is a predicate on the call just made (last) and on    *)
(* the record as that call left it (rec).                                  *)
(***************************************************************************)
DateValidators == {"validate", "before", "after", "between"}

DateOperations == DateValidators \cup {"format", "evaluateAndFormat"}

\* the call just made returned to its caller
Returned == last # Idle /\ ~last.out.ctx.threw

\* the call just made resolved the field value and its first bound
ComparedBoth == last.out.inputDate.some /\ last.out.bound1.some

\* C1: whenever the field value v and the bound b both resolve, before returns
\* true exactly when v < b and after returns true exactly when v > b (strict),
\* so the two are never both true and both are false when v = b
C1_BeforeAfterStrict ==
    /\ (last.op = "before" /\ ComparedBoth) =>
          /\ Returned
          /\ last.out.valid <=> GetTime(last.out.inputDate) < GetTime(last.out.bound1)
    /\ (last.op = "after" /\ ComparedBoth) =>
          /\ Returned
          /\ last.out.valid <=> GetTime(last.out.inputDate) > GetTime(last.out.bound1)

\* C2: between returns true exactly when start < value < end: false at either
\* endpoint, false for a degenerate interval, true strictly inside
C2_BetweenOpenInterval ==
    (last.op = "between" /\ ComparedBoth /\ last.out.bound2.some) =>
        /\ Returned
        /\ last.out.valid <=>
              /\ GetTime(last.out.bound1) < GetTime(last.out.inputDate)
              /\ GetTime(last.out.inputDate) < GetTime(last.out.bound2)

\* C2: between was called on a value on the start bound and said no
C2_Witness ==
    /\ last.op = "between"
    /\ ComparedBoth /\ last.out.bound2.some
    /\ GetTime(last.out.inputDate) = GetTime(last.out.bound1)
    /\ GetTime(last.out.inputDate) < GetTime(last.out.bound2)
    /\ ~last.out.valid

\* the date a non-empty field value stands for at the instant the call read
\* the clock: the relative expression first, then the natural date
Resolved(value, now) ==
    IF parseDateArgument(value, now).some THEN parseDateArgument(value, now)
    ELSE IF isDate(value, now) THEN parseDate(value, now)
    ELSE NoDate

\* C3: validate on a non-empty value that resolves returns true and leaves the
\* field holding that date rendered with the supplied format (ISO by default);
\* when the value does not resolve the verdict is false and the field is untouched
C3_ValidateRewrites ==
    (last.op = "validate" /\ TruthyText(last.pre.value)) =>
        /\ Returned
        /\ IF Resolved(last.pre.value, Now(clock)).some
           THEN /\ last.out.valid
                /\ rec.value = formatDate(Resolved(last.pre.value, Now(clock)),
                                          OrDefaultFormat(last.dateFormat))
           ELSE ~last.out.valid /\ rec.value = last.pre.value /\ last.out.ctx.sets = <<>>

\* C4: a validator called on an empty or absent value returns false and writes
\* nothing; it adds no error unless validateOnEmpty is set, and exactly one when
\* validateOnEmpty and addError are both set on a record with full capability
C4_EmptyValue ==
    (last.op \in DateValidators /\ ~TruthyText(last.pre.value)) =>
        /\ Returned
        /\ ~last.out.valid
        /\ last.out.ctx.sets = <<>>
        /\ rec.value = last.pre.value
        /\ ~Truthy(last.options.validateOnEmpty) =>
              last.out.ctx.errCalls = 0 /\ rec.errors = last.pre.errors
        /\ (/\ Truthy(last.options.validateOnEmpty)
            /\ Truthy(last.options.addError)
            /\ last.pre.mode = "full") =>
              last.out.ctx.errCalls = 1 /\ rec.errors = last.pre.errors + 1

\* C4: a comparison validator was asked to judge an empty value and added its one error
C4_Witness ==
    /\ last.op = "before"
    /\ last.pre.value = Empty
    /\ Truthy(last.options.validateOnEmpty)
    /\ ~last.out.valid
    /\ rec.errors = last.pre.errors + 1

\* C5: no public entry point of DateValidator ever throws, whatever the value,
\* bounds, format, validationArgs shape, options and record capability
C5_NeverThrows == last.op \in DateOperations => Returned

\* C6 as stated: with the option omitted addError and setRecord act as if true:
\* a false verdict on a non-empty value attaches an error, a format call that
\* produced a text persists it; validateOnEmpty and formatOnError act as false
C6_DefaultsOn ==
    /\ (/\ last.op \in DateValidators \cup {"StringValidator.matchesPattern"}
        /\ last.pre.mode = "full"
        /\ last.options.addError = "unset"
        /\ TruthyText(last.pre.value)
        /\ Returned
        /\ ~last.out.valid) => last.out.ctx.errCalls = 1
    /\ (/\ last.op \in {"format", "StringValidator.format"}
        /\ last.pre.mode = "full"
        /\ last.options.setRecord = "unset"
        /\ TruthyText(last.out.formatted)) =>
            last.out.ctx.sets = <<last.out.formatted>> /\ rec.value = last.out.formatted

\* C6 as the code has it: in DateValidator and in the string validators an
\* omitted addError or setRecord is off and only an explicit true turns it on;
\* StringValidator.format alone persists unless setRecord is explicitly false.
\* validateOnEmpty and formatOnError are off when omitted.
C6_DefaultsAsCoded ==
    /\ (/\ last.op \in DateValidators \cup {"StringValidator.matchesPattern"}
        /\ last.options.addError # "true") => last.out.ctx.errCalls = 0
    /\ (/\ last.op \in DateValidators \cup {"StringValidator.matchesPattern"}
        /\ last.pre.mode = "full"
        /\ last.options.addError = "true"
        /\ TruthyText(last.pre.value)
        /\ Returned
        /\ ~last.out.valid) => last.out.ctx.errCalls = 1
    /\ (last.op = "format" /\ last.options.setRecord # "true") => last.out.ctx.sets = <<>>
    /\ (/\ last.op = "format"
        /\ last.pre.mode = "full"
        /\ last.options.setRecord = "true"
        /\ TruthyText(last.out.formatted)) => last.out.ctx.sets = <<last.out.formatted>>
    /\ (/\ last.op = "StringValidator.format"
        /\ last.pre.mode = "full"
        /\ TruthyText(last.pre.value)) =>
            IF last.options.setRecord = "false" THEN last.out.ctx.sets = <<>>
            ELSE last.out.ctx.sets = <<last.out.formatted>>
    /\ (/\ last.op \in DateValidators \cup {"StringValidator.matchesPattern"}
        /\ last.options.validateOnEmpty = "unset"
        /\ ~TruthyText(last.pre.value)) => last.out.ctx.errCalls = 0
    /\ (/\ last.op = "evaluateAndFormat"
        /\ last.options.formatOnError = "unset"
        /\ Returned
        /\ ~last.out.valid) => last.out.trace = <<SelectValidator(last.type)>>

\* C6: validate judged a non-empty value false with addError omitted on a record
\* with full capability, and attached nothing
C6_Witness ==
    /\ last.op = "validate"
    /\ last.pre.mode = "full"
    /\ last.options.addError = "unset"
    /\ last.pre.value = Banana
    /\ ~last.out.valid
    /\ rec.errors = last.pre.errors

\* C7: a call that fell back to values[field].value never invokes addError or
\* addInfo, whatever its verdict and whatever options it was given
C7_NoAnnotationInReducedMode ==
    (last.op \in DateOperations /\ last.pre.mode = "reduced") =>
        last.out.ctx.errCalls = 0 /\ last.out.ctx.infoCalls = 0

\* C7: before judged a value false with addError set on a record without get
C7_Witness ==
    /\ last.op = "before"
    /\ last.pre.mode = "reduced"
    /\ last.options.addError = "true"
    /\ TruthyText(last.pre.value)
    /\ Returned
    /\ ~last.out.valid

\* C8: a call that fell back to values[field].value never invokes record.set
C8_NoSetInReducedMode ==
    (last.op \in DateOperations /\ last.pre.mode = "reduced") => last.out.ctx.sets = <<>>

\* C9: evaluateAndFormat runs the selected validator (validate for an unknown
\* type), then format exactly once if and only if the verdict is true or
\* formatOnError is set, and returns the verdict
C9_FacadeSteps ==
    last.op = "evaluateAndFormat" =>
        /\ Returned
        /\ last.out.trace =
              IF FormatStepGuard(last.out.valid, last.options)
              THEN <<SelectValidator(last.type), "format">>
              ELSE <<SelectValidator(last.type)>>

\* validationArgs is an array of exactly two elements
IsPair(args) == args.kind = "array" /\ Len(args.items) = 2

\* C10: evaluateAndFormat with type between and validationArgs that is not an
\* array of exactly two elements hands between no bounds and returns false for
\* every field value, without throwing
C10_BetweenMalformedArgs ==
    (last.op = "evaluateAndFormat" /\ last.type = "between" /\ ~IsPair(last.args)) =>
        /\ Returned
        /\ "between" \in {last.out.trace[i] : i \in 1..Len(last.out.trace)}
        /\ ~last.out.bound1.some
        /\ ~last.out.bound2.some
        /\ ~last.out.valid

\* C10: the facade was given three bounds around a value that lies between the
\* first two, and said no
C10_Witness ==
    /\ last.op = "evaluateAndFormat"
    /\ last.type = "between"
    /\ last.args = ArrayArgs(<<Jan01, Jun15, Jun15>>)
    /\ last.pre.value = Mar15
    /\ Returned
    /\ ~last.out.valid

\* the Relative-Date Expression grammar: the word now, or now with a sign, an
\* integer and a unit
IsRelativeExpression(text) ==
    /\ text # Undef
    /\ (ToLowerCase(text) = NowWord \/ RelativeMatch(ToLowerCase(text)).ok)

\* C11 as stated: isDate is true exactly when the text is no Relative-Date
\* Expression (the word now included) and the natural-date parser reads it;
\* validate on a signed relative expression returns true
C11_IsDateCarveOut ==
    /\ last.op = "isDate" =>
          (last.out <=> (~IsRelativeExpression(last.text)
                         /\ ChronoParseDate(last.text, last.now).some))
    /\ (last.op = "validate" /\ "text" \in DOMAIN last /\ IsRelativeExpression(last.text)) =>
          Returned /\ last.out.valid

\* C11 as the code has it: isDate turns away only the signed form now+N unit;
\* the bare word now is a date for isDate, read by the natural-date parser.
\* validate decides a relative expression through the Relative-Date Evaluator:
\* it returns true on a record with full capability, and on a record with
\* reduced capability its rewrite of the field throws
C11_IsDateSignedCarveOut ==
    /\ last.op = "isDate" =>
          /\ last.out <=> (/\ last.text # Undef
                           /\ ~RelativeMatch(ToLowerCase(last.text)).ok
                           /\ ChronoParseDate(last.text, last.now).some)
          /\ last.text \in {NowWord, NowUpper} => last.out
          /\ last.text = NowPlus5Days => ~last.out
    /\ (last.op = "validate" /\ "text" \in DOMAIN last /\ IsRelativeExpression(last.text)) =>
          /\ last.mode = "full" => (Returned /\ last.out.valid)
          /\ last.mode = "reduced" => last.out.ctx.threw

\* C11: isDate was applied to the bare word now and said yes
C11_Witness == last.op = "isDate" /\ last.text = NowWord /\ last.out

\* the ISO rendering YYYY-MM-DD of a date
IsoText(date) ==
    NumToString(date.y) \o <<"-">> \o PadStart2(NumToString(date.m))
        \o <<"-">> \o PadStart2(NumToString(date.d))

\* the number of components the classification of a format gives
ComponentCount(dateFormat) ==
    Len(FormatComponents(ToLowerCase(dateFormat), <<"y">>, <<"m">>, <<"d">>))

\* C12: for a format whose classification does not give exactly three
\* components formatDate renders ISO YYYY-MM-DD, with a four-digit year and
\* zero-padded month and day, whatever renderings the tokens selected
C12_MalformedFormatIso ==
    (last.op = "formatDate" /\ TruthyText(last.dateFormat)
        /\ ComponentCount(last.dateFormat) # 3) => last.out = IsoText(last.date)

\* C13: rendering a date with a well-formed format and reading the text back as
\* a natural date gives the same day
C13_RoundTrip ==
    (last.op = "parseDate" /\ last.dateFormat \in WellFormedFormats) =>
        /\ last.out.some
        /\ last.out.y = last.rendered.y
        /\ last.out.m = last.rendered.m
        /\ last.out.d = last.rendered.d

\* C14: against one clock reading now+0days, now-0days, now+0months and
\* now+0years give the instant of plain now, in any letter case and with the
\* unit singular or plural
C14_ZeroOffsetIsNow ==
    (last.op = "parseDateArgument" /\ last.text \in ZeroOffsetTexts) =>
        /\ last.out.some
        /\ last.out = last.now
        /\ last.out = parseDateArgument(NowWord, last.now)

\* C14: the evaluator was given a mixed-case zero offset on the last day of a month
C14_Witness ==
    /\ last.op = "parseDateArgument"
    /\ last.text = NowPlus0DaysMixed
    /\ last.now.d = 31
    /\ last.out = last.now

\* C15: each call of validate, before, after or between hands back its verdict,
\* adds at most one error to the field, and adds none when the verdict is true
\* or addError is not set
C15_ErrorPerCall ==
    last.op \in DateValidators =>
        /\ Returned
        /\ last.out.ctx.errors - last.pre.errors \in {0, 1}
        /\ (last.out.valid \/ ~Truthy(last.options.addError)) =>
               last.out.ctx.errors = last.pre.errors

\* C16: in format on a parsable value of a record with full capability the
\* toggles act one by one: addInfo set adds one info whether or not setRecord
\* is set, setRecord set writes the formatted value whether or not addInfo is
\* set, and with neither set the record is left as it was
C16_FormatTogglesIndependent ==
    (last.op = "format" /\ last.pre.mode = "full" /\ last.out.formatted # <<>>) =>
        /\ Truthy(last.options.addInfo) => last.out.ctx.infos = last.pre.infos + 1
        /\ ~Truthy(last.options.addInfo) => last.out.ctx.infos = last.pre.infos
        /\ Truthy(last.options.setRecord) => last.out.ctx.sets = <<last.out.formatted>>
        /\ ~Truthy(last.options.setRecord) => last.out.ctx.sets = <<>>
        /\ (~Truthy(last.options.addInfo) /\ ~Truthy(last.options.setRecord)) =>
               After(last.pre, last.out.ctx) = last.pre

\* the leading, middle and final group of the digits of a value, by position
DigitGroups(value) ==
    LET d == DigitsOnly(value)
        UpTo(n) == IF n <= Len(d) THEN n ELSE Len(d)
    IN  [area |-> SubSeq(d, 1, UpTo(3)), group |-> SubSeq(d, 4, UpTo(5)),
         serial |-> SubSeq(d, 6, UpTo(9))]

ExcludedGroups(value) ==
    \/ DigitGroups(value).area \in {<<"0","0","0">>, <<"6","6","6">>}
    \/ (Len(DigitGroups(value).area) = 3 /\ DigitGroups(value).area[1] = "9")
    \/ DigitGroups(value).group = <<"0","0">>
    \/ DigitGroups(value).serial = <<"0","0","0","0">>

\* C17: isSSN says no to every value whose digits begin with 000, 666 or 9xx,
\* or have 00 as middle group or 0000 as final group, however many digits the
\* value has
C17_SsnExclusions ==
    (last.op = "StringValidator.isSSN" /\ TruthyText(last.pre.value)
        /\ ExcludedGroups(last.pre.value)) => (Returned /\ ~last.out.valid)

\* C17: isSSN was asked about 000000000 and said no
C17_Witness ==
    /\ last.op = "StringValidator.isSSN"
    /\ last.pre.value = <<"0","0","0","0","0","0","0","0","0">>
    /\ Returned
    /\ ~last.out.valid

\* C18: isSSN judges the digits-only form of the field: a field such as
\* 123-45-6789 is accepted whenever its digits match the SSN pattern
C18_SsnJudgesDigits ==
    (last.op = "StringValidator.isSSN" /\ TruthyText(last.pre.value)) =>
        (Returned /\ (last.out.valid <=> SsnPattern(DigitsOnly(last.pre.value))))

\* the events of the job log for one call of the API
Events(call) == { p \in 1..Len(job.log) : job.log[p].call = call }

\* C19: for an asynchronous transform that is over, every record whose
\* callback result differs from its old value was sent with that result in the
\* api.records.update of the transform
C19_AsyncUpdatesSent ==
    \A p \in Events("records.get") :
        LET e == job.log[p]
            t == job.params[e.i]
        IN  (t.kind = "async" /\ job.i > e.i) =>
                \A id \in RecordIds :
                    Callback(t.fn, e.data[id]) # e.data[id] =>
                        \E q \in Events("records.update") :
                            /\ job.log[q].i = e.i
                            /\ id \in DOMAIN job.log[q].data
                            /\ job.log[q].data[id] = Callback(t.fn, e.data[id])

\* C20: the transforms run in list order, and the snapshot of a transform is
\* created after the records.update of that transform and before the next
\* transform starts
C20_SnapshotAfterUpdate ==
    /\ \A p, q \in 1..Len(job.log) : p < q => job.log[p].i <= job.log[q].i
    /\ \A p \in Events("createSnapshot") :
          /\ \A q \in Events("records.update") : job.log[q].i = job.log[p].i => q < p
          /\ \A q \in Events("jobs.update") : job.log[q].i > job.log[p].i => p < q

\* the call just made was a comparison on a value that is no natural date and
\* that the Relative-Date Evaluator resolved, with a format supplied
RelativeWithFormat ==
    /\ last.op \in {"before", "after", "between"}
    /\ TruthyText(last.pre.value)
    /\ ~isDate(last.pre.value, Now(clock))
    /\ last.out.inputDate.some
    /\ TruthyText(last.dateFormat)

\* C22 as stated: a comparison on a relative value with a format rewrites the
\* field to the rendered date, whatever the verdict
C22_RelativeRewrite ==
    RelativeWithFormat =>
        /\ Returned
        /\ last.out.ctx.sets = <<formatDate(last.out.inputDate, last.dateFormat)>>
        /\ rec.value = formatDate(last.out.inputDate, last.dateFormat)

\* C22 as the code has it: on a record with full capability the field is
\* rewritten to the rendered date, whatever the verdict; on a record with
\* reduced capability before and between write nothing and after throws on
\* its rewrite
C22_RelativeRewriteByCapability ==
    RelativeWithFormat =>
        /\ last.pre.mode = "full" =>
              /\ Returned
              /\ last.out.ctx.sets = <<formatDate(last.out.inputDate, last.dateFormat)>>
              /\ rec.value = formatDate(last.out.inputDate, last.dateFormat)
        /\ (last.pre.mode = "reduced" /\ last.op # "after") =>
              /\ Returned
              /\ last.out.ctx.sets = <<>>
              /\ rec.value = last.pre.value
        /\ (last.pre.mode = "reduced" /\ last.op = "after") => last.out.ctx.threw

\* C22: before rewrote a relative value and then judged it false
C22_Witness ==
    /\ RelativeWithFormat
    /\ last.op = "before"
    /\ last.pre.mode = "full"
    /\ ~last.out.valid
    /\ rec.value # last.pre.value
    /\ rec.value = formatDate(last.out.inputDate, last.dateFormat)

\* C30: before, after and between leave the field value as it was, and call
\* record.set not at all, unless the value is no natural date, the
\* Relative-Date Evaluator resolves it and a format was supplied
C30_ComparisonFrame ==
    (last.op \in {"before", "after", "between"} /\ ~RelativeWithFormat) =>
        /\ rec.value = last.pre.value
        /\ last.out.ctx.sets = <<>>

\* C30: a comparison with a format judged a natural date false, with addError
\* set, and the field kept its text
C30_Witness ==
    /\ last.op \in {"before", "after", "between"}
    /\ last.pre.mode = "full"
    /\ isDate(last.pre.value, Now(clock))
    /\ last.pre.value # NowWord
    /\ TruthyText(last.dateFormat)
    /\ last.options.addError = "true"
    /\ ~last.out.valid
    /\ rec.value = last.pre.value

\* the delimiter C24 names for a lower-cased format
ClaimedDelimiter(lowered) ==
    IF Includes(lowered, <<"m","m","m">>) THEN <<" ">>
    ELSE IF \E i \in 1..Len(lowered) : lowered[i] = "/" THEN <<"/">>
    ELSE IF \E i \in 1..Len(lowered) : lowered[i] = "-" THEN <<"-">>
    ELSE IF \E i \in 1..Len(lowered) : lowered[i] = "." THEN <<".">>
    ELSE <<" ">>

\* the components formatDate selected for the last rendering
RenderedComponents ==
    LET lowered == ToLowerCase(last.dateFormat)
    IN  FormatComponents(lowered, FormatYear(last.date, lowered),
                         FormatMonth(last.date, lowered), FormatDay(last.date, lowered))

\* C24: on the three-component path formatDate joins the components with /,
\* else -, else ., else a space, by the literal characters of the format, and
\* with a space whenever the format holds a month-name token
C24_Delimiter ==
    (last.op = "formatDate" /\ TruthyText(last.dateFormat)
        /\ ComponentCount(last.dateFormat) = 3) =>
        last.out = RenderedComponents[1] \o ClaimedDelimiter(ToLowerCase(last.dateFormat))
                     \o RenderedComponents[2] \o ClaimedDelimiter(ToLowerCase(last.dateFormat))
                     \o RenderedComponents[3]

\* C24: a format with a month name between dashes was rendered with spaces
C24_Witness ==
    /\ last.op = "formatDate"
    /\ last.dateFormat = <<"D","D","-","M","M","M","-","Y","Y","Y","Y">>
    /\ last.out = <<"1","5"," ","M","a","r"," ","2","0","2","4">>

\* the components the fragments of a format select, in order
FragmentKinds(dateFormat) ==
    FormatComponents(ToLowerCase(dateFormat), <<"y">>, <<"m">>, <<"d">>)

\* C25: on the three-component path the output holds one year, one month and
\* one day component: no component is repeated and none is left out
C25_OneOfEach ==
    (last.op = "formatDate" /\ TruthyText(last.dateFormat)
        /\ ComponentCount(last.dateFormat) = 3) =>
        /\ { FragmentKinds(last.dateFormat)[i] : i \in 1..3 } = {<<"y">>, <<"m">>, <<"d">>}
        /\ \E i \in 1..3 : RenderedComponents[i] = FormatDay(last.date, ToLowerCase(last.dateFormat))

\* C23: every record.set made by a DateValidator operation stores a non-empty
\* text, and a call on a value that is neither a relative expression nor a
\* natural date makes no record.set and leaves the field as it was
C23_NoEmptyWrite ==
    last.op \in DateOperations =>
        /\ \A i \in 1..Len(last.out.ctx.sets) : last.out.ctx.sets[i] # <<>>
        /\ (~TruthyText(last.pre.value) \/ ~Resolved(last.pre.value, Now(clock)).some) =>
              /\ last.out.ctx.sets = <<>>
              /\ rec.value = last.pre.value

\* C23: format was asked to write back the rendering of a text that is no date
C23_Witness ==
    /\ last.op = "format"
    /\ last.pre.mode = "full"
    /\ last.pre.value = Banana
    /\ last.options.setRecord = "true"
    /\ last.out.formatted = <<>>
    /\ rec.value = Banana

\* C27: evaluateAndFormat with type validate, a format and setRecord on a
\* parsable value returns and leaves render(parse(v), F) in the field; the
\* format step writes nothing else, the field denotes the day of v, and a
\* second call leaves the field as the first one did
C27_FacadeValidateStable ==
    (last.op = "evaluateAndFormat" /\ Resolved(last.text, Now(clock)).some) =>
        LET day == Resolved(last.text, Now(clock))
            rendered == formatDate(day, last.dateFormat)
            field == parseDate(last.out.ctx.value, Now(clock))
        IN  /\ ~last.out.ctx.threw
            /\ last.out.ctx.value = rendered
            /\ \A i \in 1..Len(last.out.ctx.sets) : last.out.ctx.sets[i] = rendered
            /\ field.some /\ field.y = day.y /\ field.m = day.m /\ field.d = day.d
            /\ last.again.ctx.value = last.out.ctx.value

\* the types of the string facade that can turn a non-empty value away
FailingTypes == {"isEmail", "isPhone", "isSSN", "matchesPattern", "hasLength", "min", "max"}

\* C26: for every type of the string facade that can fail on a non-empty
\* value, a call with addError on, on a record with full capability and a
\* non-empty value, attaches one error annotation whenever the verdict is
\* false.
C26_ErrorOnEveryFailingType ==
    ( /\ last # Idle
      /\ last.op = "StringValidator.evaluateAndFormat"
      /\ last.type \in FailingTypes
      /\ Truthy(last.options.addError)
      /\ last.pre.mode = "full"
      /\ TruthyText(last.pre.value)
      /\ ~last.out.valid )
    => /\ last.out.ctx.errCalls = 1
       /\ rec.errors = last.pre.errors + 1

\* C28: formatSSN with setRecord on, applied on a record with full
\* capability to a valid SSN of nine digits, writes XXX-XX-XXXX; applied
\* again to the field already in that form, by formatSSN or by
\* evaluateAndFormatSSN with formatOnError, it leaves XXX-XX-XXXX in place.
C28_FormatSsnIdempotent ==
    ( /\ last # Idle
      /\ \/ last.op = "StringValidator.formatSSN"
         \/ last.op = "StringValidator.evaluateAndFormatSSN" /\ Truthy(last.options.formatOnError)
      /\ Truthy(last.options.setRecord)
      /\ last.pre.mode = "full"
      /\ SsnPattern(DigitsOnly(last.pre.value))
      /\ last.pre.value \in {DigitsOnly(last.pre.value), DashSsn(DigitsOnly(last.pre.value))} )
    => rec.value = DashSsn(DigitsOnly(last.pre.value))

\* position of the first call of that name in the log, 0 when there is none
FirstCall(log, call) ==
    IF \E i \in 1..Len(log) : log[i] = call
    THEN CHOOSE i \in 1..Len(log) : log[i] = call /\ \A j \in 1..(i - 1) : log[j] # call
    ELSE 0

\* C21: when the extract-clients job has completed, the clients sheet holds
\* exactly one record per distinct primary_email of the project records,
\* built from the first project with that email, and none of the records
\* it held before; the pre-existing clients are deleted before the single
\* insert, and jobs.complete comes after the insert.
C21_ClientsPerEmail ==
    job.pc = "completed" =>
        LET emails == { job.projects[i].primary_email : i \in 1..Len(job.projects) }
            First(e) == CHOOSE i \in 1..Len(job.projects) :
                            /\ job.projects[i].primary_email = e
                            /\ \A j \in 1..(i - 1) : job.projects[j].primary_email # e
            inserts == { i \in 1..Len(job.log) : job.log[i] = "records.insert" }
        IN  /\ \A e \in emails :
                  \E c \in job.clientsSheet :
                      /\ c.primary_email = e
                      /\ c.primary_name = job.projects[First(e)].primary_name
                      /\ \A d \in job.clientsSheet : d.primary_email = e => d = c
            /\ \A c \in job.clientsSheet : c.primary_email \in emails
            /\ job.clientsSheet \cap job.before = {}
            /\ Cardinality(inserts) = 1
            /\ job.before # {} => FirstCall(job.log, "records.delete") \in 1..(FirstCall(job.log, "records.insert") - 1)
            /\ FirstCall(job.log, "records.insert") < FirstCall(job.log, "jobs.complete")

\* the positions of the log that hold a terminal call
TerminalCalls == { i \in 1..Len(job.log) : job.log[i].call \in {"jobs.complete", "jobs.fail"} }

\* the calls made are well ordered: at most one terminal call, nothing of a
\* stage after a call that threw, jobs.complete only after the three stages
ParquetOrdered ==
    /\ Cardinality(TerminalCalls) <= 1
    /\ \A i, j \in 1..Len(job.log) :
          (i < j /\ job.log[i].threw) => job.log[j].call \notin StageFunctions \cup {"jobs.complete"}
    /\ \A i \in 1..Len(job.log) :
          job.log[i].call = "jobs.complete" =>
              \A f \in {"extractZipInS3", "convertParquetToCsv", "importToFlatfile"} :
                  \E k \in 1..(i - 1) : job.log[k].call = f /\ ~job.log[k].threw

\* C29: every acknowledged file:extractParquet job eventually reaches a
\* terminal call, jobs.complete or jobs.fail, also when a stage or the
\* status-workbook update throws, in the try block or while the failure is
\* handled; there is one terminal call at most, no stage runs after a failed
\* one, and jobs.complete comes only after the three stages succeeded.
C29_TerminalCall ==
    /\ [](ParquetOrdered)
    /\ (job.pc # "ready") ~> (TerminalCalls # {})

=============================================================================
